---- MODULE Spec2Model ----
(***************************************************************************)
(* A model of copilot-team-metrics:                                        *)
(*   src/fetch_ent_copilot_billingseat.py   (the team/seat report)         *)
(*   src/fetch_ent_team_copilot_metrics.py  (the metrics report)           *)
(*                                                                         *)
(* Spec       the two programs' runs: start-up, the retrying HTTP client,  *)
(*            the collectors and main's sequencing of them.  The server's  *)
(*            responses are the nondeterministic input.                    *)
(* SpecCand   generate_login_candidates_from_email applied to every short   *)
(*            email under several suffix configurations.                   *)
(* SpecIndex  build_scim_index run over every short list of directory      *)
(*            records, one record per step.                                *)
(* SpecJoin   main's join of teams and memberships with the directory      *)
(*            index and the seats, one membership per step.                *)
(* SpecFlat   write_to_csv flattening metric entries, one entry per step.  *)
(* SpecResolve the join over a directory of one record, for the candidate  *)
(*            keys of its email.                                           *)
(* SpecPaged  the billing program from the end of the directory collection *)
(*            on, under weak fairness: the page-number collectors.         *)
(* SpecReports either report writer: the join or the flattening.           *)
(***************************************************************************)
EXTENDS Integers, Sequences, FiniteSets, TLC

(***************************************************************************)
(* Bounds of the model.                                                    *)
(***************************************************************************)
\* per_page / count / PER_PAGE are 100 in the source; the collectors only
\* compare the length of a page with it, so the model scales the page down.
PerPage == 2
\* The server's data is finite: from page MaxPages on it has no full page
\* and no "next" link left.
MaxPages == 2
\* The largest totalResults the directory service reports.
MaxTotal == 3

(***************************************************************************)
(* Program constants.                                                      *)
(***************************************************************************)
\* range(1, 7): attempts 1..6
MaxAttempts == 6
\* min(30, 2 * attempt)
BackoffCap == 30
BackoffStep == 2

RetryStatuses == {403, 429, 500, 502, 503, 504}
AccessStatuses == {403, 404}

\* The statuses the modelled server answers with.
Statuses == {200, 401, 403, 404, 429, 500, 502, 503, 504}

Min(a, b) == IF a <= b THEN a ELSE b
Max(a, b) == IF a >= b THEN a ELSE b

(***************************************************************************)
(* JSON payloads.  A payload is null, a bare array of n items, or an       *)
(* object; an object's fields map a key to an array of n items, to an      *)
(* integer or to null.  The items of an array are identified by the page   *)
(* (or start index) they came with and their position in it.               *)
(***************************************************************************)
NullP == [kind |-> "null", n |-> 0, fields |-> <<>>]
ListP(n) == [kind |-> "list", n |-> n, fields |-> <<>>]
DictP(f) == [kind |-> "dict", n |-> 0, fields |-> f]

ListV(n) == [t |-> "list", v |-> n]
IntV(k) == [t |-> "int", v |-> k]
NullV == [t |-> "null", v |-> 0]

Items(p, n) == [i \in 1..n |-> <<p, i>>]

\* dict.get(k): the field's value, None when the key is absent
Get(payload, k) == IF k \in DOMAIN payload.fields THEN payload.fields[k] ELSE NullV

\* the truth value Python gives a payload / a field's value
TruthyP(payload) ==
    CASE payload.kind = "null" -> FALSE
      [] payload.kind = "list" -> payload.n > 0
      [] OTHER -> DOMAIN payload.fields # {}
TruthyV(val) ==
    CASE val.t = "null" -> FALSE
      [] val.t = "list" -> val.v > 0
      [] OTHER -> val.v # 0

(***************************************************************************)
(* HTTP responses.                                                         *)
(***************************************************************************)
Digits == {"0", "1", "2", "3", "4", "5", "6", "7", "8", "9"}
DigitVal(c) ==
    CASE c = "0" -> 0 [] c = "1" -> 1 [] c = "2" -> 2 [] c = "3" -> 3 [] c = "4" -> 4
      [] c = "5" -> 5 [] c = "6" -> 6 [] c = "7" -> 7 [] c = "8" -> 8 [] OTHER -> 9

\* str.isdigit(): non-empty and every character a digit
IsDigit(s) == Len(s) > 0 /\ \A i \in 1..Len(s) : s[i] \in Digits

RECURSIVE ToInt(_)
ToInt(s) == IF s = <<>> THEN 0 ELSE 10 * ToInt(SubSeq(s, 1, Len(s) - 1)) + DigitVal(s[Len(s)])

\* The Retry-After header as a string of characters; <<>> when absent.
RetryAfterHeaders == {<<>>, <<"4", "5">>, <<"1", "x">>}
BodyTexts == {"body_a", "body_b"}



\* A response: the status, headers and text the two programs read.
\* retry_after, remaining and reset are header strings (<<>> when the header
\* is absent); next says whether the Link header holds a "next" relation.
\* The JSON body is decoded by resp.json() in the collector that reads it, so
\* its value is drawn there, from the bodies below.
Resp(st, ra, tx, nx, rem, rst) ==
    [status |-> st, retry_after |-> ra, text |-> tx,
     next |-> nx, remaining |-> rem, reset |-> rst]

NoResp == Resp(0, <<>>, "", FALSE, <<>>, <<>>)

\* The longest page the server still has at page p.
PageCap(p) == IF p >= MaxPages THEN PerPage - 1 ELSE PerPage

\* keys= of the two fetch_rest_list_paged callers, and the keys the seat and
\* directory collectors read.
TeamKeys == <<"teams", "items", "data">>
MembershipKeys == <<"memberships", "items", "data">>
SeatKey == "seats"
ResourcesKey == "Resources"

Range(seq) == {seq[i] : i \in 1..Len(seq)}

\* The 200 bodies the server sends a fetch_rest_list_paged caller: bare arrays,
\* objects with one key (known or not), objects where a later key holds the
\* array, the empty object and null.
PagedPayloads(keys, p) ==
    {ListP(n) : n \in 0..PageCap(p)}
      \cup {DictP(k :> ListV(n)) : k \in Range(keys) \cup {"bogus"}, n \in 0..PageCap(p)}
      \cup {DictP(keys[1] :> IntV(1) @@ keys[3] :> ListV(1)),
            DictP(keys[2] :> ListV(1) @@ keys[3] :> ListV(0)),
            DictP(keys[1] :> IntV(1)), DictP(<<>>), NullP}

SeatPayloads(p) ==
    {DictP(SeatKey :> ListV(n)) : n \in 0..PageCap(p)}
      \cup {DictP("items" :> ListV(n)) : n \in 0..PageCap(p)}
      \cup {ListP(n) : n \in 0..PageCap(p)}
      \cup {DictP(SeatKey :> NullV), DictP(SeatKey :> IntV(1)), DictP(<<>>), NullP}

\* Directory bodies: Resources, totalResults and itemsPerPage each present or
\* absent, plus the unrecognized shapes.
ScimPayloads ==
    {DictP(f) : f \in
        {r @@ t @@ i :
            r \in {<<>>} \cup {ResourcesKey :> ListV(n) : n \in 0..PerPage},
            t \in {<<>>} \cup {"totalResults" :> IntV(k) : k \in 0..MaxTotal},
            i \in {<<>>} \cup {"itemsPerPage" :> IntV(k) : k \in 0..PerPage}}}
      \cup {DictP("items" :> ListV(1)), ListP(0), ListP(1), NullP}

\* resp.json(): the bodies collector ph can find in a response for page p;
\* only a 200 body is ever decoded.
PayloadsOf(ph, p, status) ==
    IF status # 200 THEN {NullP}
    ELSE CASE ph = "scim" -> ScimPayloads
           [] ph = "seats" -> SeatPayloads(p)
           [] ph = "teams" -> PagedPayloads(TeamKeys, p)
           [] ph = "memberships" -> PagedPayloads(MembershipKeys, p)
           [] OTHER -> {ListP(n) : n \in 0..PerPage} \cup {DictP("message" :> NullV)}

\* What SESSION.get can answer a request with.  The
\* body text is read only from a 403 or 404, so only those vary in it.
Responses ==
    {Resp(404, <<>>, tx, FALSE, <<>>, <<>>) : tx \in BodyTexts}
      \cup {Resp(st, <<>>, "body_a", FALSE, <<>>, <<>>) : st \in Statuses \ (RetryStatuses \cup {404})}
      \cup {Resp(403, ra, tx, FALSE, <<>>, <<>>) : ra \in RetryAfterHeaders, tx \in BodyTexts}
      \cup {Resp(st, ra, "body_a", FALSE, <<>>, <<>>) :
                st \in RetryStatuses \ {403}, ra \in RetryAfterHeaders}

\* The endpoint each collector pages through.
Url(ph) ==
    CASE ph = "scim" -> "/scim/v2/enterprises/E/Users"
      [] ph = "seats" -> "/enterprises/E/copilot/billing/seats"
      [] ph = "teams" -> "/enterprises/E/teams"
      [] ph = "memberships" -> "/enterprises/E/teams/T/memberships"
      [] ph = "m_teams" -> "/enterprises/E/teams"
      [] OTHER -> "/enterprises/E/team/T/copilot/metrics"

\* An exception: its type and what its message carries.
Exc(ty, st, url, tx) == [type |-> ty, status |-> st, url |-> url, text |-> tx]
NoErr == Exc("none", 0, "", "")

(***************************************************************************)
(* State.                                                                  *)
(***************************************************************************)
VARIABLES
    prog,         \* "billing" | "metrics": which program runs
    cfg,          \* [token, tenant]: whether the environment sets them
    phase,        \* the collector main is in
    pc,           \* "start", "gh_get", "handle", "m_get", "returned", "loop",
                  \* "raised", "fatal", "exit"
    attempt,      \* gh_get: the for loop's attempt
    last,         \* gh_get: last
    resp,         \* the response the collector holds
    page,         \* the page-number collectors' page
    start_index,  \* fetch_all_scim_users: start_index
    out,          \* the collector's accumulated list
    err,          \* the exception that ended the run
    todo,         \* main: teams the for loop has not reached yet
    output,       \* "none" | "open" | "complete": the CSV file
    rlSleep,      \* handle_rate_limit: seconds slept for the last response
    clock,        \* history: int(time.time()) as handle_rate_limit last read it
    \* history variables
    nreq,         \* requests issued by the current gh_get call
    firstOk,      \* position of its first non-retryable response, 0 if none
    nsleeps,      \* time.sleep calls of the current gh_get call
    wait,         \* the last wait of the current gh_get call
    calls,        \* page requests of the current collector
    first,        \* the directory's first page: [seen, noIpp, noRes, total]
    sawAccess,    \* a collector was handed a final 403/404 response
    sawBadShape,  \* a collector was handed a 200 body of unrecognized shape
    \* generate_login_candidates_from_email (SpecCand)
    LOGIN_SUFFIX,     \* the environment's LOGIN_SUFFIX, "" when unset
    ENTERPRISE_SLUG,  \* the environment's ENTERPRISE_SLUG
    email,            \* the argument
    candidates,       \* the set returned
    cpc,              \* "idle" | "call" | "done"
    \* build_scim_index (SpecIndex)
    scim_users,       \* the argument: the directory records, in input order
    idx,              \* idx
    position,         \* the record the for loop reaches next
    ipc,              \* "idle" | "loop" | "done"
    \* main's join of teams, memberships, directory and seats (SpecJoin)
    all_seats,        \* fetch_copilot_billing_seats_by_login: all_seats
    seats_by_login,   \* seats_by_login
    team,             \* the team t of the outer for loop
    rows,             \* rows
    jpc,              \* "idle" | "teams" | "members" | "written"
    collected,        \* history: the (team, membership) pairs fetched so far
    evalDays,         \* history: per row, the day is_active read, 0 if not called
    \* __main__ and write_to_csv of the metrics program (SpecFlat)
    mteam,            \* the team of "for team in teams"
    csv,              \* the data rows written to the CSV file so far
    fpc,              \* "idle" | "teams" | "entries" | "closed"
    written,          \* history: the (team, entry) pairs passed to write_to_csv
    rowSrc            \* history: per row, where in written it comes from

httpVars == <<prog, cfg, phase, pc, attempt, last, resp, page, start_index, out, err,
              todo, output, rlSleep, clock, nreq, firstOk, nsleeps, wait, calls, first,
              sawAccess, sawBadShape>>
envVars == <<LOGIN_SUFFIX, ENTERPRISE_SLUG>>
candVars == <<email, candidates, cpc>>
indexVars == <<scim_users, idx, position, ipc>>
joinVars == <<all_seats, seats_by_login, team, rows, jpc, collected, evalDays>>
flatVars == <<mteam, csv, fpc, written, rowSrc>>
pureVars == <<envVars, candVars, indexVars, joinVars, flatVars>>

vars == <<httpVars, envVars, candVars, indexVars, joinVars, flatVars>>

\* what a call of generate_login_candidates_from_email leaves alone
candFrame == <<httpVars, envVars, indexVars, joinVars, flatVars>>
\* what build_scim_index leaves alone
indexFrame == <<httpVars, envVars, candVars, joinVars, flatVars>>
\* what main's join leaves alone
joinFrame == <<httpVars, envVars, candVars, indexVars, flatVars>>
\* what the metrics program's flattening leaves alone
flatFrame == <<httpVars, envVars, candVars, indexVars, joinVars>>

ghGetVars == <<attempt, last, nreq, firstOk, nsleeps, wait>>
collVars == <<page, start_index, out, calls, first>>
runVars == <<prog, cfg, todo, output>>
seenVars == <<sawAccess, sawBadShape>>

NoFirst == [seen |-> FALSE, noIpp |-> FALSE, noRes |-> FALSE, total |-> 0]

\* The run has not started: the start of Spec, and the rest of the run's
\* state in the specifications of the pure functions.
HttpStart ==
    /\ phase = "none"
    /\ pc = "start"
    /\ attempt = 1
    /\ last = NoResp
    /\ resp = NoResp
    /\ page = 1
    /\ start_index = 1
    /\ out = <<>>
    /\ err = NoErr
    /\ todo = 0
    /\ output = "none"
    /\ rlSleep = 0
    /\ clock = 0
    /\ nreq = 0
    /\ firstOk = 0
    /\ nsleeps = 0
    /\ wait = 0
    /\ calls = 0
    /\ first = NoFirst
    /\ sawAccess = FALSE
    /\ sawBadShape = FALSE

HttpIdle ==
    /\ prog = "none"
    /\ cfg = [token |-> TRUE, tenant |-> TRUE]
    /\ HttpStart

EnvIdle ==
    /\ LOGIN_SUFFIX = <<>>
    /\ ENTERPRISE_SLUG = <<>>

CandIdle ==
    /\ email = <<>>
    /\ candidates = {}
    /\ cpc = "idle"

IndexIdle ==
    /\ scim_users = <<>>
    /\ idx = <<>>
    /\ position = 1
    /\ ipc = "idle"

NoTeam == [name |-> <<>>, display_name |-> <<>>, slug |-> <<>>, team_slug |-> <<>>]

JoinIdle ==
    /\ all_seats = <<>>
    /\ seats_by_login = <<>>
    /\ team = NoTeam
    /\ rows = <<>>
    /\ jpc = "idle"
    /\ collected = <<>>
    /\ evalDays = <<>>

FlatIdle ==
    /\ mteam = <<>>
    /\ csv = <<>>
    /\ fpc = "idle"
    /\ written = <<>>
    /\ rowSrc = <<>>

PureIdle == EnvIdle /\ CandIdle /\ IndexIdle /\ JoinIdle /\ FlatIdle

Init ==
    /\ prog \in {"billing", "metrics"}
    /\ cfg \in [token : BOOLEAN, tenant : BOOLEAN]
    /\ HttpStart
    /\ PureIdle

(***************************************************************************)
(* gh_get                                                                  *)
(***************************************************************************)
ShouldRetryNotFound(status) == status \in RetryStatuses \cup {404}

\* resp.status_code in (403, 429, 500, 502, 503, 504)
ShouldRetry(status) == status \in RetryStatuses

\* int(retry_after) if retry_after and retry_after.isdigit() else min(30, 2 * attempt)
Wait(retry_after, n) ==
    IF IsDigit(retry_after) THEN ToInt(retry_after) ELSE Min(BackoffCap, BackoffStep * n)

\* Entering gh_get: last = None, the for loop at attempt 1.
EnterGhGet ==
    /\ pc' = "gh_get"
    /\ attempt' = 1
    /\ last' = NoResp
    /\ resp' = NoResp
    /\ nreq' = 0
    /\ firstOk' = 0
    /\ nsleeps' = 0
    /\ wait' = 0

\* One pass of the for loop: the request, then either the sleep and the next
\* attempt, or the return of resp; the sixth retryable response falls out of
\* the loop to "return last".
GhGetAttempt ==
    /\ pc = "gh_get"
    /\ \E r \in Responses :
        /\ last' = r
        /\ nreq' = nreq + 1
        /\ firstOk' = IF firstOk = 0 /\ r.status \notin RetryStatuses THEN nreq + 1 ELSE firstOk
        /\ IF ShouldRetry(r.status)
             THEN /\ wait' = Wait(r.retry_after, attempt)
                  /\ nsleeps' = nsleeps + 1
                  /\ IF attempt < MaxAttempts
                       THEN attempt' = attempt + 1 /\ pc' = "gh_get" /\ resp' = resp
                       ELSE attempt' = attempt /\ pc' = "handle" /\ resp' = r
             ELSE /\ UNCHANGED <<wait, nsleeps, attempt>>
                  /\ pc' = "handle"
                  /\ resp' = r
    /\ UNCHANGED <<phase, err, rlSleep, clock, collVars, runVars, seenVars>>
    /\ UNCHANGED pureVars

(***************************************************************************)
(* normalize_list_payload and the collectors of the team/seat program      *)
(***************************************************************************)
RECURSIVE FirstListKey(_, _, _)
\* for k in keys: the first k whose value is a list; 0 when there is none
FirstListKey(payload, keys, i) ==
    IF i > Len(keys) THEN 0
    ELSE IF Get(payload, keys[i]).t = "list" THEN i
    ELSE FirstListKey(payload, keys, i + 1)

\* [ok, items]: ok is FALSE where the source raises RuntimeError
NormalizeListPayload(payload, keys, p) ==
    IF payload.kind = "list" THEN [ok |-> TRUE, items |-> Items(p, payload.n)]
    ELSE IF payload.kind = "dict" /\ FirstListKey(payload, keys, 1) # 0
      THEN LET k == keys[FirstListKey(payload, keys, 1)]
           IN  [ok |-> TRUE, items |-> Items(p, Get(payload, k).v)]
    ELSE [ok |-> FALSE, items |-> <<>>]

\* A body is of a recognized shape for an endpoint when it is a bare array or
\* an object holding an array under one of the endpoint's keys.
Recognized(payload, keyset) ==
    \/ payload.kind = "list"
    \/ payload.kind = "dict" /\ \E k \in keyset : Get(payload, k).t = "list"

\* requests' Response.raise_for_status: HTTPError for 4xx and 5xx
RaisesForStatus(status) == 400 <= status /\ status < 600

\* resp.json() or {}
OrEmptyDict(payload) == IF TruthyP(payload) THEN payload ELSE DictP(<<>>)

IsAccessErrorOnly403(status) == status = 403

\* fetch_rest_list_paged: resp.status_code in (403, 404)
IsAccessError(status) == status \in {403, 404}

ItemsPerPageOrCount(ippv, nres) == IF TruthyV(ippv) THEN ippv.v ELSE PerPage

\* int(payload.get("itemsPerPage") or len(resources) or 0)
ItemsPerPage(ippv, nres) == IF TruthyV(ippv) THEN ippv.v ELSE nres

\* An uncaught exception ends the run.
Fail(e) ==
    /\ pc' = "raised"
    /\ err' = e
    /\ UNCHANGED <<phase, resp, rlSleep, clock, ghGetVars, page, start_index, out, calls, runVars>>

\* The collector returns its list to main.
\* a return that drops what was collected
ReturnNothing(items) ==
    /\ pc' = "returned"
    /\ out' = <<>>
    /\ UNCHANGED <<phase, resp, err, rlSleep, clock, ghGetVars, page, start_index, calls, runVars>>

Return(items) ==
    /\ pc' = "returned"
    /\ out' = items
    /\ UNCHANGED <<phase, resp, err, rlSleep, clock, ghGetVars, page, start_index, calls, runVars>>

\* fetch_rest_list_paged, from gh_get's return to the next call or the end.
PagedHandle ==
    /\ pc = "handle"
    /\ phase \in {"teams", "memberships"}
    /\ \E json \in PayloadsOf(phase, page, resp.status) :
       LET keys == IF phase = "teams" THEN TeamKeys ELSE MembershipKeys
           norm == NormalizeListPayload(json, keys, page)
       IN  /\ sawAccess' = (sawAccess \/ resp.status \in AccessStatuses)
           /\ sawBadShape' = (sawBadShape
                                \/ (resp.status = 200 /\ ~Recognized(json, Range(keys))))
           /\ first' = first
           /\ IF IsAccessError(resp.status)
                THEN Fail(Exc("HTTPError", resp.status, Url(phase), resp.text))
              ELSE IF RaisesForStatus(resp.status)
                THEN Fail(Exc("HTTPError", resp.status, Url(phase), ""))
              ELSE IF ~norm.ok
                THEN Fail(Exc("RuntimeError", resp.status, "", ""))
              ELSE IF Len(norm.items) < PerPage
                THEN Return(out \o norm.items)
              ELSE /\ out' = out \o norm.items
                   /\ page' = page + 1
                   /\ calls' = calls + 1
                   /\ EnterGhGet
                   /\ UNCHANGED <<phase, err, rlSleep, clock, start_index, runVars>>
    /\ UNCHANGED pureVars


\* int(x or 0) for a field holding an integer or nothing
IntOrZero(val) == IF val.t = "int" THEN val.v ELSE 0

\* fetch_all_scim_users, from gh_get's return to the next call or the end.
ScimHandle ==
    /\ pc = "handle"
    /\ phase = "scim"
    /\ \E json \in PayloadsOf(phase, page, resp.status) :
       LET payload == OrEmptyDict(json)
           resv == Get(payload, ResourcesKey)
           \* resources = payload.get("Resources") or []
           nres == IF resv.t = "list" THEN resv.v ELSE 0
           users == out \o Items(start_index, nres)
           total_results == IntOrZero(Get(payload, "totalResults"))
           ippv == Get(payload, "itemsPerPage")
           items_per_page == ItemsPerPage(ippv, nres)
       IN  /\ sawAccess' = (sawAccess \/ resp.status \in AccessStatuses)
           /\ sawBadShape' = (sawBadShape
                                \/ (resp.status = 200
                                      /\ ~Recognized(json, {ResourcesKey})))
           /\ IF RaisesForStatus(resp.status)
                THEN Fail(Exc("HTTPError", resp.status, Url(phase), "")) /\ first' = first
              ELSE IF payload.kind = "list"
                \* a non-empty array has no .get
                THEN Fail(Exc("AttributeError", resp.status, "", "")) /\ first' = first
              ELSE IF TruthyV(resv) /\ resv.t # "list"
                \* users.extend(<a number>)
                THEN Fail(Exc("TypeError", resp.status, "", "")) /\ first' = first
              ELSE /\ first' = IF first.seen THEN first
                               ELSE [seen |-> TRUE, noIpp |-> ~TruthyV(ippv),
                                     noRes |-> (nres = 0), total |-> total_results]
                   /\ IF items_per_page <= 0
                        THEN Return(users)
                      ELSE IF start_index + items_per_page > total_results
                        THEN /\ pc' = "returned"
                             /\ out' = users
                             /\ start_index' = start_index + items_per_page
                             /\ UNCHANGED <<phase, resp, err, rlSleep, clock, ghGetVars, page,
                                            calls, runVars>>
                      ELSE /\ out' = users
                           /\ start_index' = start_index + items_per_page
                           /\ calls' = calls + 1
                           /\ EnterGhGet
                           /\ UNCHANGED <<phase, err, rlSleep, clock, page, runVars>>
    /\ UNCHANGED pureVars

\* fetch_copilot_billing_seats_by_login, from gh_get's return to the next call
\* or the end.  The by-login mapping built from all_seats is SeatsByLogin.
SeatsHandle ==
    /\ pc = "handle"
    /\ phase = "seats"
    /\ \E json \in PayloadsOf(phase, page, resp.status) :
       LET payload == OrEmptyDict(json)
           sv == Get(payload, SeatKey)
           \* seats = payload.get("seats", []) or []
           n == IF sv.t = "list" THEN sv.v ELSE 0
           allSeats == out \o Items(page, n)
       IN  /\ sawAccess' = (sawAccess \/ resp.status \in AccessStatuses)
           /\ sawBadShape' = (sawBadShape
                                \/ (resp.status = 200 /\ ~Recognized(json, {SeatKey})))
           /\ first' = first
           /\ IF RaisesForStatus(resp.status)
                THEN Fail(Exc("HTTPError", resp.status, Url(phase), ""))
              ELSE IF payload.kind = "list"
                THEN Fail(Exc("AttributeError", resp.status, "", ""))
              ELSE IF TruthyV(sv) /\ sv.t # "list"
                THEN Fail(Exc("TypeError", resp.status, "", ""))
              ELSE IF n < PerPage
                THEN Return(allSeats)
              ELSE /\ out' = allSeats
                   /\ page' = page + 1
                   /\ calls' = calls + 1
                   /\ EnterGhGet
                   /\ UNCHANGED <<phase, err, rlSleep, clock, start_index, runVars>>
    /\ UNCHANGED pureVars

(***************************************************************************)
(* Start-up and main of the team/seat program                              *)
(***************************************************************************)
\* A collector starts: its locals, then its first gh_get call.
StartCollector(ph) ==
    /\ phase' = ph
    /\ page' = 1
    /\ start_index' = 1
    /\ out' = <<>>
    /\ calls' = 1
    /\ first' = NoFirst
    /\ EnterGhGet

\* A collector's locals are gone once main has taken its result.
DropLocals ==
    /\ resp' = NoResp
    /\ attempt' = 1
    /\ last' = NoResp
    /\ nreq' = 0
    /\ firstOk' = 0
    /\ nsleeps' = 0
    /\ wait' = 0
    /\ page' = 1
    /\ start_index' = 1
    /\ out' = <<>>
    /\ calls' = 0
    /\ first' = NoFirst

\* Module level of fetch_ent_copilot_billingseat.py: the two SystemExit
\* checks, then main() up to its first collector.
BillingStartup ==
    /\ pc = "start"
    /\ prog = "billing"
    /\ IF ~cfg.token \/ ~cfg.tenant
         THEN /\ pc' = "fatal"
              /\ err' = Exc("SystemExit", 0, "", "")
              /\ UNCHANGED <<phase, resp, ghGetVars, collVars>>
         ELSE /\ StartCollector("scim")
              /\ err' = err
    /\ UNCHANGED <<rlSleep, clock, runVars, seenVars>>
    /\ UNCHANGED pureVars

\* main(): what follows the return of each collector.
BillingMain ==
    /\ pc = "returned"
    /\ prog = "billing"
    /\ CASE phase = "scim" -> StartCollector("seats") /\ UNCHANGED todo
         [] phase = "seats" -> StartCollector("teams") /\ UNCHANGED todo
         [] phase = "teams" ->
                /\ pc' = "loop"
                /\ todo' = Len(out)
                /\ DropLocals
                /\ UNCHANGED phase
         [] OTHER ->
                /\ pc' = "loop"
                /\ DropLocals
                /\ UNCHANGED <<todo, phase>>
    /\ UNCHANGED <<prog, cfg, output, err, rlSleep, clock, seenVars>>
    /\ UNCHANGED pureVars

\* main(): the head of "for t in teams"; a team without a slug is skipped,
\* the others have their memberships fetched; after the last team the CSV
\* is written.
BillingTeamLoop ==
    /\ pc = "loop"
    /\ prog = "billing"
    /\ IF todo = 0
         THEN /\ output' = "complete"
              /\ pc' = "exit"
              /\ UNCHANGED <<todo, phase, resp, ghGetVars, collVars>>
         ELSE /\ todo' = todo - 1
              /\ output' = output
              /\ \E team_slug \in BOOLEAN :
                    IF team_slug
                      THEN StartCollector("memberships")
                      ELSE UNCHANGED <<pc, phase, resp, ghGetVars, collVars>>
    /\ UNCHANGED <<prog, cfg, err, rlSleep, clock, seenVars>>
    /\ UNCHANGED pureVars


(***************************************************************************)
(* The metrics program                                                     *)
(***************************************************************************)
\* The clock readings time.time() returns in handle_rate_limit.
Times == {5, 12}
RemainingHeaders == {<<>>, <<"0">>, <<"7">>}
ResetHeaders == {<<>>, <<"9">>}
MetricsStatuses == {200, 403, 404, 500}

\* What requests.get can answer for page p of a metrics-program collector.
MResponses(p) ==
    {Resp(200, <<>>, "json", nx, rem, rst) :
        nx \in IF p < MaxPages THEN BOOLEAN ELSE {FALSE},
        rem \in RemainingHeaders, rst \in ResetHeaders}
      \cup {Resp(st, <<>>, "body_a", FALSE, rem, rst) :
              st \in MetricsStatuses \ {200}, rem \in RemainingHeaders, rst \in ResetHeaders}

\* a sleep until the reset time without the margin
SleepWithoutMargin(response, current_time) ==
    LET remaining == IF response.remaining = <<>> THEN 1 ELSE ToInt(response.remaining)
        reset_time == IF response.reset = <<>> THEN 0 ELSE ToInt(response.reset)
    IN  IF remaining = 0 THEN Max(reset_time - current_time, 0) ELSE 0

\* handle_rate_limit: the seconds it sleeps, 0 when it does not sleep
HandleRateLimit(response, current_time) ==
    LET remaining == IF response.remaining = <<>> THEN 1 ELSE ToInt(response.remaining)
        reset_time == IF response.reset = <<>> THEN 0 ELSE ToInt(response.reset)
    IN  IF remaining = 0 THEN Max(reset_time - current_time, 1) + 2 ELSE 0

\* list.extend(data): the items of an array, the keys of an object
Extended(payload, p) ==
    IF payload.kind = "list" THEN Items(p, payload.n)
    ELSE Items(p, Cardinality(DOMAIN payload.fields))

\* no body taken for empty
NeverNoData(data) == FALSE

\* fetch_enterprise_teams / fetch_team_metrics: "if not data"
NoData(data) == ~TruthyP(data)

\* One pass of the while loop of fetch_enterprise_teams / fetch_team_metrics:
\* the request, handle_rate_limit, then either a break (the list is returned)
\* or the next page after the courtesy sleep.  A status other than 200 (the
\* 404 branch of fetch_team_metrics included) is logged and breaks.
LinkPagedStep ==
    /\ \E r \in MResponses(page), current_time \in Times :
      \E data \in PayloadsOf(phase, page, r.status) :
        /\ resp' = r
        /\ rlSleep' = HandleRateLimit(r, current_time)
        /\ clock' = current_time
        /\ calls' = calls + 1
        /\ sawAccess' = (sawAccess \/ r.status \in AccessStatuses)
        /\ sawBadShape' = (sawBadShape \/ (r.status = 200 /\ ~Recognized(data, {})))
        /\ IF r.status # 200 \/ NoData(data)
             THEN pc' = "returned" /\ UNCHANGED <<out, page>>
             ELSE /\ out' = out \o Extended(data, page)
                  /\ IF r.next
                       THEN page' = page + 1 /\ pc' = "m_get"
                       ELSE page' = page /\ pc' = "returned"
        /\ UNCHANGED <<phase, err, ghGetVars, start_index, first, runVars>>
    /\ UNCHANGED pureVars

MTeamsStep ==
    /\ pc = "m_get"
    /\ phase = "m_teams"
    /\ LinkPagedStep

MMetricsStep ==
    /\ pc = "m_get"
    /\ phase = "m_metrics"
    /\ LinkPagedStep

\* A collector of the metrics program starts.
StartLinkCollector(ph) ==
    /\ phase' = ph
    /\ pc' = "m_get"
    /\ page' = 1
    /\ out' = <<>>
    /\ calls' = 0
    /\ resp' = NoResp

\* fetch_ent_team_copilot_metrics.py reads its configuration without checking
\* it; __main__ goes straight to fetch_enterprise_teams.
MetricsStartup ==
    /\ pc = "start"
    /\ prog = "metrics"
    /\ StartLinkCollector("m_teams")
    /\ UNCHANGED <<err, rlSleep, clock, ghGetVars, start_index, first, runVars, seenVars>>
    /\ UNCHANGED pureVars

\* __main__: no teams means exit(); otherwise the file is opened and the
\* header written.  After fetch_team_metrics, write_to_csv appends the rows.
MetricsMain ==
    /\ pc = "returned"
    /\ prog = "metrics"
    /\ IF phase = "m_teams"
         THEN IF out = <<>>
                THEN pc' = "exit" /\ UNCHANGED <<todo, output>>
                ELSE pc' = "loop" /\ todo' = Len(out) /\ output' = "open"
         ELSE pc' = "loop" /\ UNCHANGED <<todo, output>>
    /\ DropLocals
    /\ rlSleep' = 0
    /\ clock' = 0
    /\ UNCHANGED <<prog, cfg, phase, err, seenVars>>
    /\ UNCHANGED pureVars

\* __main__: the head of "for team in teams".
MetricsTeamLoop ==
    /\ pc = "loop"
    /\ prog = "metrics"
    /\ IF todo = 0
         THEN /\ output' = "complete"
              /\ pc' = "exit"
              /\ UNCHANGED <<todo, phase, resp, page, out, calls>>
         ELSE /\ todo' = todo - 1
              /\ output' = output
              /\ \E team_slug \in BOOLEAN :
                    IF team_slug
                      THEN StartLinkCollector("m_metrics")
                      ELSE UNCHANGED <<pc, phase, resp, page, out, calls>>
    /\ UNCHANGED <<prog, cfg, err, rlSleep, clock, ghGetVars, start_index, first, seenVars>>
    /\ UNCHANGED pureVars

Next ==
    \/ BillingStartup
    \/ GhGetAttempt
    \/ ScimHandle
    \/ SeatsHandle
    \/ PagedHandle
    \/ BillingMain
    \/ BillingTeamLoop
    \/ MetricsStartup
    \/ MTeamsStep
    \/ MMetricsStep
    \/ MetricsMain
    \/ MetricsTeamLoop

Spec == Init /\ [][Next]_vars


(***************************************************************************)
(* Properties of the runs (Spec)                                           *)
(***************************************************************************)
InPaged == phase \in {"teams", "memberships"}

\* C1: one gh_get call issues between 1 and 6 requests; another request is
\* pending only after a response with a status in {403, 429, 500, 502, 503,
\* 504}; the response returned is the first one with a status outside that
\* set, or the sixth response when all six are in it (returned, not raised).
C1_GhGetAttempts ==
    /\ nreq \in 0..6
    /\ pc = "gh_get" =>
          /\ nreq < 6
          /\ firstOk = 0
          /\ nreq >= 1 => last.status \in {403, 429, 500, 502, 503, 504}
    /\ pc = "handle" =>
          /\ nreq \in 1..6
          /\ resp = last
          /\ IF firstOk # 0
               THEN nreq = firstOk /\ resp.status \notin {403, 429, 500, 502, 503, 504}
               ELSE nreq = 6 /\ resp.status \in {403, 429, 500, 502, 503, 504}

\* All six responses were retryable and the sixth was returned.
C1_Witness == pc = "handle" /\ nreq = 6 /\ firstOk = 0 /\ resp.status = 503

\* C2 as claimed: a 403 or 404 answer to a page request of
\* fetch_rest_list_paged is the last request for that page and no sleep
\* follows it; the error carries the endpoint and the body.
C2_Original ==
    InPaged =>
       /\ (nreq >= 1 /\ last.status \in {403, 404}) => (pc # "gh_get" /\ nsleeps = nreq - 1)
       /\ (pc = "raised" /\ resp.status \in {403, 404}) =>
              (nreq = 1 /\ nsleeps = 0 /\ err.url = Url(phase) /\ err.text = resp.text)

\* C2 as amended: the response gh_get hands back for a page being a 403 or
\* 404, fetch_rest_list_paged raises an HTTPError carrying the endpoint and
\* the body and returns no list; a 404 ends gh_get at once, with no sleep
\* after it; a 403 is slept on and retried, and is handed back only as the
\* sixth retryable response, after six requests and six sleeps.
C2_AccessErrorRaised ==
    InPaged =>
       /\ sawAccess =>
             /\ pc = "raised"
             /\ err.type = "HTTPError"
             /\ err.status = resp.status
             /\ err.url = Url(phase)
             /\ err.text = resp.text
       /\ pc = "returned" => resp.status \notin {403, 404}
       /\ (nreq >= 1 /\ last.status = 404) =>
             (pc # "gh_get" /\ nsleeps = nreq - 1 /\ firstOk = nreq)
       /\ (nreq >= 1 /\ last.status = 403) => nsleeps = nreq
       /\ (pc \in {"handle", "raised"} /\ resp.status = 403) => (nreq = 6 /\ nsleeps = 6)

\* A membership page answered 403 six times: the error after six requests.
C2_Witness ==
    /\ phase = "memberships"
    /\ pc = "raised"
    /\ err = Exc("HTTPError", 403, Url("memberships"), "body_b")
    /\ nreq = 6
    /\ page = 2

\* C3 as claimed: in both programs, once a collector is handed a final 403
\* or 404 response the run has failed with a raised error.
C3_Original == sawAccess => pc = "raised"

C5_Original == (prog = "billing" /\ sawBadShape) => pc = "raised"


(***************************************************************************)
(* Strings.  A string is a sequence of one-character strings.              *)
(***************************************************************************)
LowerLetters == <<"a", "b", "c", "d", "e", "f", "g", "h", "i", "j", "k", "l", "m",
                  "n", "o", "p", "q", "r", "s", "t", "u", "v", "w", "x", "y", "z">>
UpperLetters == <<"A", "B", "C", "D", "E", "F", "G", "H", "I", "J", "K", "L", "M",
                  "N", "O", "P", "Q", "R", "S", "T", "U", "V", "W", "X", "Y", "Z">>
Whitespace == {" "}

\* str.lower()
LowerOf ==
    [c \in Range(UpperLetters) |-> LowerLetters[CHOOSE i \in 1..26 : UpperLetters[i] = c]]
LowerChar(c) == IF c \in DOMAIN LowerOf THEN LowerOf[c] ELSE c
Lower(s) == [i \in 1..Len(s) |-> LowerChar(s[i])]

RECURSIVE LStrip(_, _)
LStrip(s, chars) ==
    IF s # <<>> /\ s[1] \in chars THEN LStrip(Tail(s), chars) ELSE s
RECURSIVE RStrip(_, _)
RStrip(s, chars) ==
    IF s # <<>> /\ s[Len(s)] \in chars THEN RStrip(SubSeq(s, 1, Len(s) - 1), chars) ELSE s

\* str.strip(chars)
StripChars(s, chars) == RStrip(LStrip(s, chars), chars)
\* str.strip()
Strip(s) == StripChars(s, Whitespace)

\* c in s
Contains(s, c) == \E i \in 1..Len(s) : s[i] = c

\* s.split(c, 1)[0]: the text before the first c, all of s when it has none
BeforeFirst(s, c) ==
    IF Contains(s, c)
      THEN SubSeq(s, 1, (CHOOSE i \in 1..Len(s) : s[i] = c /\ \A j \in 1..(i - 1) : s[j] # c) - 1)
      ELSE s

RECURSIVE Replace(_, _, _)
\* s.replace(c, r) for a one-character c
Replace(s, c, r) ==
    IF s = <<>> THEN <<>>
    ELSE (IF s[1] = c THEN r ELSE <<s[1]>>) \o Replace(Tail(s), c, r)

\* re.sub(r"[^...]", "", s): the characters of s in the class, in order
KeepOnly(s, class) == SelectSeq(s, LAMBDA c : c \in class)

AlnumChars == Range(LowerLetters) \cup Digits
AlnumHyphenChars == AlnumChars \cup {"-"}

(***************************************************************************)
(* derive_suffix_token and generate_login_candidates_from_email            *)
(***************************************************************************)
\* LOGIN_SUFFIX = (os.getenv("LOGIN_SUFFIX") or "").strip().lower()
LoginSuffix(env) == Lower(Strip(env))

\* the whole tenant slug as the default token
SuffixFromWholeSlug(login_suffix_env, slug) ==
    IF LoginSuffix(login_suffix_env) # <<>>
      THEN LoginSuffix(login_suffix_env)
      ELSE Lower(Strip(slug))

\* derive_suffix_token
DeriveSuffixToken(login_suffix_env, slug) ==
    IF LoginSuffix(login_suffix_env) # <<>>
      THEN LoginSuffix(login_suffix_env)
      ELSE Lower(Strip(BeforeFirst(slug, "-")))

\* local = email.split("@", 1)[0].strip(), of the stripped, lowered email
LocalPart(e) == Strip(BeforeFirst(Lower(Strip(e)), "@"))

VariantsNoAsIs(local) ==
    {Replace(local, ".", <<>>),
     Replace(local, ".", <<"-">>),
     Replace(local, "_", <<"-">>),
     KeepOnly(local, AlnumHyphenChars),
     KeepOnly(local, AlnumChars)}

\* variants: the six forms of the local-part
Variants(local) ==
    {local,
     Replace(local, ".", <<>>),
     Replace(local, ".", <<"-">>),
     Replace(local, "_", <<"-">>),
     KeepOnly(local, AlnumHyphenChars),
     KeepOnly(local, AlnumChars)}

\* generate_login_candidates_from_email
GenerateLoginCandidates(e, suffix) ==
    IF ~Contains(Lower(Strip(e)), "@") \/ LocalPart(e) = <<>> THEN {}
    ELSE LET stripped == {Strip(StripChars(v, {"-"})) : v \in Variants(LocalPart(e))} \ {<<>>}
         IN  stripped \cup (IF suffix # <<>> THEN {v \o <<"_">> \o suffix : v \in stripped}
                            ELSE {})

\* The emails, suffix overrides and tenant slugs the function is applied to.
MaxEmailLen == 4
EmailChars == {"a", "B", ".", "-", "_", "@", " "}
RECURSIVE StringsUpTo(_, _)
StringsUpTo(chars, n) ==
    IF n = 0 THEN {<<>>}
    ELSE LET shorter == StringsUpTo(chars, n - 1)
         IN  shorter \cup {<<c>> \o t : c \in chars, t \in {u \in shorter : Len(u) = n - 1}}
Emails == StringsUpTo(EmailChars, MaxEmailLen)
SuffixEnvs == {<<>>, <<" ", "X">>}
Slugs == {<<"N", "g", "-", "E">>, <<"-", "E">>, <<"c", "o">>}

CandInit ==
    /\ email \in Emails
    /\ candidates = {}
    /\ cpc = "call"

\* One call of generate_login_candidates_from_email(email).
CandCall ==
    /\ cpc = "call"
    /\ candidates' = GenerateLoginCandidates(email, DeriveSuffixToken(LOGIN_SUFFIX, ENTERPRISE_SLUG))
    /\ cpc' = "done"
    /\ UNCHANGED <<email, candFrame>>

EnvInit ==
    /\ LOGIN_SUFFIX \in SuffixEnvs
    /\ ENTERPRISE_SLUG \in Slugs

InitCand == HttpIdle /\ IndexIdle /\ JoinIdle /\ FlatIdle /\ EnvInit /\ CandInit
NextCand == CandCall
SpecCand == InitCand /\ [][NextCand]_vars

\* the text before the first "@" of an email, lowercased
LocalOf(e) == Lower(BeforeFirst(e, "@"))

\* C7 as claimed: for an email with a non-empty local-part L the set returned
\* is non-empty and holds L (lowercased) and, when there is a suffix token,
\* L_suffix; also for an L that begins or ends with "-" or is all "-".
C7_Original ==
    (cpc = "done" /\ Contains(email, "@") /\ Strip(LocalOf(email)) # <<>>) =>
        LET L == Strip(LocalOf(Strip(email)))
            suffix == DeriveSuffixToken(LOGIN_SUFFIX, ENTERPRISE_SLUG)
        IN  /\ candidates # {}
            /\ L \in candidates
            /\ suffix # <<>> => (L \o <<"_">> \o suffix) \in candidates

\* C7 as amended: for an email with a non-empty local-part L, let L' be L
\* (lowercased) without its leading and trailing "-" (and the blanks those
\* leave outside).  When L' is not empty the set returned holds L' and, when
\* there is a suffix token, L'_suffix; when L' is empty (L is all "-") the
\* set returned is empty.
C7_StrippedLocalPart ==
    (cpc = "done" /\ Contains(email, "@") /\ Strip(LocalOf(email)) # <<>>) =>
        LET L == Strip(LocalOf(Strip(email)))
            Lp == Strip(StripChars(L, {"-"}))
            suffix == DeriveSuffixToken(LOGIN_SUFFIX, ENTERPRISE_SLUG)
        IN  IF Lp = <<>> THEN candidates = {}
            ELSE /\ Lp \in candidates
                 /\ suffix # <<>> => (Lp \o <<"_">> \o suffix) \in candidates

\* "-a@B" under the slug "Ng-E": the set holds a and a_ng, not -a
C7_Witness ==
    /\ cpc = "done"
    /\ email = <<"-", "a", "@", "B">>
    /\ LOGIN_SUFFIX = <<>>
    /\ ENTERPRISE_SLUG = <<"N", "g", "-", "E">>
    /\ candidates = {<<"a">>, <<"a", "_", "n", "g">>}

(***************************************************************************)
(* Directory records, pick_scim_email, pick_scim_name, build_scim_index    *)
(***************************************************************************)
\* An entry of a record's "emails" list; isDict is FALSE for an entry that is
\* not a JSON object.
EmailEntry(isDict, primary, value) ==
    [isDict |-> isDict, primary |-> primary, value |-> value]

\* An element of scim_users.  isDict is FALSE for an element that is not a
\* JSON object; nameIsDict is FALSE when "name" holds a non-empty value that
\* is not an object; an absent or null field is the empty string or list.
User(isDict, displayName, nameIsDict, formatted, givenName, familyName, emails, userName) ==
    [isDict |-> isDict, displayName |-> displayName, nameIsDict |-> nameIsDict,
     formatted |-> formatted, givenName |-> givenName, familyName |-> familyName,
     emails |-> emails, userName |-> userName]

\* " ".join(parts) over the non-empty parts
JoinNonEmpty(given, family) ==
    IF given # <<>> /\ family # <<>> THEN given \o <<" ">> \o family
    ELSE given \o family

\* pick_scim_name
PickScimName(u) ==
    IF Strip(u.displayName) # <<>> THEN Strip(u.displayName)
    ELSE IF ~u.nameIsDict THEN <<>>
    ELSE IF Strip(u.formatted) # <<>> THEN Strip(u.formatted)
    ELSE Strip(JoinNonEmpty(Strip(u.givenName), Strip(u.familyName)))

IsPrimary(e) == e.isDict /\ e.primary /\ e.value # <<>>
HasValue(e) == e.isDict /\ e.value # <<>>

\* primary = next((e for e in emails if ... e.get("primary") is True and
\* e.get("value")), None): its position, 0 for None
FirstPrimary(emails) ==
    IF \E i \in 1..Len(emails) : IsPrimary(emails[i])
      THEN CHOOSE i \in 1..Len(emails) :
              IsPrimary(emails[i]) /\ \A j \in 1..(i - 1) : ~IsPrimary(emails[j])
      ELSE 0

\* first = next((e for e in emails if ... e.get("value")), None): its
\* position, 0 for None
FirstWithValue(emails) ==
    IF \E i \in 1..Len(emails) : HasValue(emails[i])
      THEN CHOOSE i \in 1..Len(emails) :
              HasValue(emails[i]) /\ \A j \in 1..(i - 1) : ~HasValue(emails[j])
      ELSE 0

\* the fallback of pick_scim_email: str(u.get("userName") or "").strip() when
\* it holds "@"
UserNameAsEmail(u) ==
    IF Contains(Strip(u.userName), "@") THEN Strip(u.userName) ELSE <<>>

\* pick_scim_email
PickScimEmail(u) ==
    LET primary == FirstPrimary(u.emails)
        first_ == FirstWithValue(u.emails)
    IN  IF primary # 0 THEN Strip(u.emails[primary].value)
        ELSE IF first_ # 0 THEN Strip(u.emails[first_].value)
        ELSE UserNameAsEmail(u)

\* build_scim_index: keys of one record
KeysOf(u, suffix) ==
    LET email_ == PickScimEmail(u)
        scim_user_name == Strip(u.userName)
    IN  (IF email_ # <<>>
           THEN {Lower(email_), Lower(BeforeFirst(email_, "@"))}
                \cup GenerateLoginCandidates(email_, suffix)
           ELSE {})
        \cup
        (IF scim_user_name # <<>>
           THEN {Lower(scim_user_name)}
                \cup (IF Contains(scim_user_name, "@")
                        THEN {Lower(BeforeFirst(scim_user_name, "@"))}
                             \cup GenerateLoginCandidates(scim_user_name, suffix)
                        ELSE {})
           ELSE {})

\* build_scim_index: the value stored for a record
Entry(u) ==
    [name |-> PickScimName(u), email |-> PickScimEmail(u),
     scim_userName |-> Strip(u.userName)]

\* d[k] = v
SetItem(d, k, v) == [x \in DOMAIN d \cup {k} |-> IF x = k THEN v ELSE d[x]]

\* setdefault replaced by an assignment: last-write-wins, the mutation C6 is
\* checked against
SetDefaultOverwrite(d, k, v) == SetItem(d, k, v)

\* d.setdefault(k, v)
SetDefault(d, k, v) ==
    IF k \in DOMAIN d THEN d ELSE [x \in DOMAIN d \cup {k} |-> IF x = k THEN v ELSE d[x]]

RECURSIVE SetDefaultAll(_, _, _)
\* for k in keys: if not k: continue; idx.setdefault(k, v)
SetDefaultAll(d, keys, v) ==
    IF keys = {} THEN d
    ELSE LET k == CHOOSE x \in keys : TRUE
         IN  SetDefaultAll(IF k = <<>> THEN d ELSE SetDefault(d, k, v), keys \ {k}, v)

\* build_scim_index: one pass of "for u in scim_users"
IndexRecord(d, u, suffix) ==
    IF ~u.isDict THEN d ELSE SetDefaultAll(d, KeysOf(u, suffix), Entry(u))

RECURSIVE BuildFrom(_, _, _)
BuildFrom(d, users, suffix) ==
    IF users = <<>> THEN d
    ELSE BuildFrom(IndexRecord(d, Head(users), suffix), Tail(users), suffix)

\* build_scim_index
BuildScimIndex(users, suffix) == BuildFrom(<<>>, users, suffix)

\* The directory records build_scim_index is applied to.
MaxUsers == 3
UserPool ==
    { \* an element that is not an object
      User(FALSE, <<>>, TRUE, <<>>, <<>>, <<>>, <<>>, <<>>),
      \* displayName, one e-mail "a.b@x", userName "u1"
      User(TRUE, <<"N", "1">>, TRUE, <<>>, <<>>, <<>>,
           <<EmailEntry(TRUE, FALSE, <<"a", ".", "b", "@", "x">>)>>, <<"u", "1">>),
      \* name.formatted, e-mail "ab@y", userName "A.B@x"
      User(TRUE, <<>>, TRUE, <<"N", "2">>, <<>>, <<>>,
           <<EmailEntry(TRUE, FALSE, <<"a", "b", "@", "y">>)>>, <<"A", ".", "B", "@", "x">>),
      \* blank displayName, given and family name, no e-mails, userName "AB@z"
      User(TRUE, <<" ">>, TRUE, <<>>, <<"G">>, <<"F">>, <<>>, <<"A", "B", "@", "z">>),
      \* name that is not an object, primary e-mail "a_b@x" after "-@x"
      User(TRUE, <<>>, FALSE, <<>>, <<>>, <<>>,
           <<EmailEntry(TRUE, FALSE, <<"-", "@", "x">>),
             EmailEntry(TRUE, TRUE, <<"a", "_", "b", "@", "x">>)>>, <<>>),
      \* no e-mails, userName " u1 "
      User(TRUE, <<"N", "5">>, TRUE, <<>>, <<>>, <<>>, <<>>, <<" ", "u", "1", " ">>),
      \* entries without a usable value before "@x", whose local-part is empty
      User(TRUE, <<>>, TRUE, <<>>, <<>>, <<"F">>,
           <<EmailEntry(FALSE, TRUE, <<"q", "@", "x">>),
             EmailEntry(TRUE, TRUE, <<>>),
             EmailEntry(TRUE, FALSE, <<"@", "x">>)>>, <<>>),
      \* primary e-mail "A.B@x", no userName
      User(TRUE, <<"N", "7">>, TRUE, <<>>, <<>>, <<>>,
           <<EmailEntry(TRUE, TRUE, <<"A", ".", "B", "@", "x">>)>>, <<>>) }

RECURSIVE SeqsUpTo(_, _)
SeqsUpTo(S, n) ==
    IF n = 0 THEN {<<>>}
    ELSE LET shorter == SeqsUpTo(S, n - 1)
         IN  shorter \cup {Append(t, x) : x \in S, t \in {u \in shorter : Len(u) = n - 1}}

IndexInit ==
    /\ scim_users \in SeqsUpTo(UserPool, MaxUsers)
    /\ idx = <<>>
    /\ position = 1
    /\ ipc = "loop"

\* build_scim_index: one pass of the for loop
IndexStep ==
    /\ ipc = "loop"
    /\ position <= Len(scim_users)
    /\ idx' = IndexRecord(idx, scim_users[position],
                          DeriveSuffixToken(LOGIN_SUFFIX, ENTERPRISE_SLUG))
    /\ position' = position + 1
    /\ UNCHANGED <<scim_users, ipc, indexFrame>>

\* build_scim_index: return idx
IndexReturn ==
    /\ ipc = "loop"
    /\ position > Len(scim_users)
    /\ ipc' = "done"
    /\ UNCHANGED <<scim_users, idx, position, indexFrame>>

\* build_scim_index runs with or without a LOGIN_SUFFIX override
IndexEnv ==
    /\ LOGIN_SUFFIX \in SuffixEnvs
    /\ ENTERPRISE_SLUG = <<"N", "g", "-", "E">>

InitIndex == HttpIdle /\ CandIdle /\ JoinIdle /\ FlatIdle /\ IndexEnv /\ IndexInit
NextIndex == IndexStep \/ IndexReturn
SpecIndex == InitIndex /\ [][NextIndex]_vars

\* the non-empty keys each record of scim_users generates
Generated ==
    [i \in 1..Len(scim_users) |->
        IF scim_users[i].isDict
          THEN KeysOf(scim_users[i], DeriveSuffixToken(LOGIN_SUFFIX, ENTERPRISE_SLUG)) \ {<<>>}
          ELSE {}]

\* C6: over the records build_scim_index has passed, every key of the index
\* maps to the name, email and userName of the earliest record that generates
\* the key, and every non-empty key a record generates is in the index; when
\* the function returns it has passed every record.
C6_FirstWriteWins ==
    ipc \in {"loop", "done"} =>
        LET keys == Generated
        IN  /\ ipc = "done" => position = Len(scim_users) + 1
            /\ \A k \in DOMAIN idx :
                  \E i \in 1..(position - 1) :
                     /\ k \in keys[i]
                     /\ \A j \in 1..(i - 1) : k \notin keys[j]
                     /\ idx[k] = [name |-> PickScimName(scim_users[i]),
                                  email |-> PickScimEmail(scim_users[i]),
                                  scim_userName |-> Strip(scim_users[i].userName)]
            /\ \A i \in 1..(position - 1) : keys[i] \subseteq DOMAIN idx

\* three records, two of which generate one key with different fields: the
\* index holds the earlier record's
C6_Witness ==
    /\ ipc = "done"
    /\ Len(scim_users) = MaxUsers
    /\ \E i \in 1..Len(scim_users) : \E j \in (i + 1)..Len(scim_users) :
          \E k \in DOMAIN idx :
             /\ k \in Generated[i]
             /\ k \in Generated[j]
             /\ \A h \in 1..(i - 1) : k \notin Generated[h]
             /\ Entry(scim_users[i]) # Entry(scim_users[j])
             /\ idx[k] = Entry(scim_users[i])

(***************************************************************************)
(* Seats, is_active, parse_membership_login and the join of main           *)
(***************************************************************************)
\* A last_activity_at value: "none" (absent or null), "empty" (""), "bad"
\* (a value datetime.fromisoformat rejects, or one that is not a string) or
\* "iso" (a timestamp, as its day number).
TS(kind, day) == [kind |-> kind, day |-> day]

\* An element of all_seats: assignee.login ("" when absent), status and
\* last_activity_at; plan_type, created_at and updated_at are copied to the
\* row like status and hold one non-blank value each.
Seat(login, status, last_activity_at) ==
    [login |-> login, status |-> status, last_activity_at |-> last_activity_at,
     plan_type |-> <<"b">>, created_at |-> <<"c">>, updated_at |-> <<"u">>]

\* timedelta(days=30)
ActiveDays == 30

\* is_active with "<": the mutation C10 is checked against
IsActiveStrict(last_activity_at, now) ==
    IF last_activity_at.kind \in {"none", "empty"} THEN "inactive"
    ELSE IF last_activity_at.kind = "bad" THEN "inactive"
    ELSE IF now - last_activity_at.day < ActiveDays THEN "active" ELSE "inactive"

\* is_active; now is what datetime.now returns, as a day number
IsActive(last_activity_at, now) ==
    IF last_activity_at.kind \in {"none", "empty"} THEN "inactive"
    ELSE IF last_activity_at.kind = "bad" THEN "inactive"
    ELSE IF now - last_activity_at.day <= ActiveDays THEN "active" ELSE "inactive"

RECURSIVE ByLoginFrom(_, _)
\* fetch_copilot_billing_seats_by_login: for s in all_seats
ByLoginFrom(d, seats) ==
    IF seats = <<>> THEN d
    ELSE LET login == Strip(Head(seats).login)
         IN  ByLoginFrom(IF login # <<>> THEN SetItem(d, login, Head(seats)) ELSE d,
                         Tail(seats))

\* fetch_copilot_billing_seats_by_login: by_login
SeatsByLogin(seats) == ByLoginFrom(<<>>, seats)

\* A JSON value under a key: absent, a string, an object with its own
\* "login", or anything else.
Absent == [t |-> "absent"]
Str(v) == [t |-> "str", v |-> v]
Other == [t |-> "other"]
Obj(login) == [t |-> "dict", login |-> login]

\* An element of memberships; isDict is FALSE for one that is not an object.
Membership(isDict, user, member, login) ==
    [isDict |-> isDict, user |-> user, member |-> member, login |-> login]

\* parse_membership_login: the value at the end of path (k, "login")
Via(x) == IF x.t = "dict" THEN x.login ELSE Absent

\* parse_membership_login: ok and isinstance(cur, str) and cur.strip()
Usable(cur) == cur.t = "str" /\ Strip(cur.v) # <<>>

\* parse_membership_login reading the path user.login alone
ParseUserLoginOnly(m) ==
    IF ~m.isDict THEN <<>>
    ELSE IF Usable(Via(m.user)) THEN Strip(Via(m.user).v)
    ELSE <<>>

\* parse_membership_login
ParseMembershipLogin(m) ==
    IF ~m.isDict THEN <<>>
    ELSE IF Usable(Via(m.user)) THEN Strip(Via(m.user).v)
    ELSE IF Usable(Via(m.member)) THEN Strip(Via(m.member).v)
    ELSE IF Usable(m.login) THEN Strip(m.login.v)
    ELSE <<>>

\* An element of teams; an absent or null field is the empty string.
Team(name, display_name, slug, team_slug) ==
    [name |-> name, display_name |-> display_name, slug |-> slug, team_slug |-> team_slug]

\* a or b
Or(a, b) == IF a # <<>> THEN a ELSE b

\* main: team_name
TeamName(t) == Strip(Or(t.name, Or(t.display_name, t.slug)))
\* main: team_slug
TeamSlug(t) == Strip(Or(t.slug, t.team_slug))

\* a directory entry that is not blank, in place of {}
PlaceholderScim == [name |-> <<"?">>, email |-> <<"?">>, scim_userName |-> <<"?">>]

\* scim_index.get(key) or {}, read with scim.get(field, "")
NoScim == [name |-> <<>>, email |-> <<>>, scim_userName |-> <<>>]
NoTS == TS("empty", 0)

\* main: the dict appended to rows; now is the clock is_active reads
Row(t, login, scim_index, by_login, now) ==
    LET key == Strip(Lower(login))
        scim == IF key \in DOMAIN scim_index THEN scim_index[key] ELSE NoScim
        found == login \in DOMAIN by_login
    IN  [team_name |-> TeamName(t),
         team_slug |-> TeamSlug(t),
         login |-> login,
         name |-> scim.name,
         email |-> scim.email,
         scim_userName |-> scim.scim_userName,
         copilot_assigned |-> IF found THEN "yes" ELSE "no",
         copilot_status |-> IF found THEN by_login[login].status ELSE <<>>,
         plan_type |-> IF found THEN by_login[login].plan_type ELSE <<>>,
         last_activity_at |-> IF found THEN by_login[login].last_activity_at ELSE NoTS,
         active_status |-> IF found THEN IsActive(by_login[login].last_activity_at, now)
                           ELSE "inactive",
         seat_created_at |-> IF found THEN by_login[login].created_at ELSE <<>>,
         seat_updated_at |-> IF found THEN by_login[login].updated_at ELSE <<>>]

\* The inputs of the join.
MaxCollected == 2
ClockDays == {31, 32}

TeamPool ==
    { Team(<<"T", "1">>, <<>>, <<"t", "1">>, <<>>),
      \* display_name and team_slug in place of name and slug
      Team(<<>>, <<"D">>, <<>>, <<" ", "t", "2">>),
      \* no slug under either key
      Team(<<"X">>, <<>>, <<>>, <<>>),
      \* a blank slug hides team_slug
      Team(<<"Y">>, <<>>, <<" ">>, <<"t", "9">>) }

MembershipPool ==
    { Membership(TRUE, Obj(Str(<<"A", "B">>)), Absent, Absent),
      Membership(TRUE, Absent, Obj(Str(<<" ", "u", "1", " ">>)), Absent),
      \* a blank user.login before a usable top-level login
      Membership(TRUE, Obj(Str(<<" ">>)), Absent, Str(<<"a", "b">>)),
      Membership(TRUE, Absent, Absent, Str(<<"z", "z">>)),
      \* not an object
      Membership(FALSE, Absent, Absent, Absent),
      \* user is not an object, login is not a string
      Membership(TRUE, Other, Obj(Absent), Other) }

\* the directories main joins against: empty, or "a.b@x" / "u1" and "AB@z"
Directories ==
    { <<>>,
      << User(TRUE, <<"N", "1">>, TRUE, <<>>, <<>>, <<>>,
              <<EmailEntry(TRUE, FALSE, <<"a", ".", "b", "@", "x">>)>>, <<"u", "1">>),
         User(TRUE, <<" ">>, TRUE, <<>>, <<"G">>, <<"F">>, <<>>, <<"A", "B", "@", "z">>) >> }

\* the seat lists main joins against
SeatLists ==
    { <<>>,
      << Seat(<<"A", "B">>, <<"s", "1">>, TS("iso", 1)),
         Seat(<<" ", "u", "1", " ">>, <<"s", "2">>, TS("none", 0)),
         Seat(<<>>, <<"s", "3">>, TS("iso", 2)) >>,
      \* "ab" differs from the login "AB" by letter case alone
      << Seat(<<"a", "b">>, <<"s", "4">>, TS("iso", 2)),
         Seat(<<"z", "z">>, <<"s", "5">>, TS("bad", 0)) >>,
      \* two seats of one login; a timestamp after every clock reading
      << Seat(<<"u", "1">>, <<"s", "6">>, TS("iso", 2)),
         Seat(<<"u", "1">>, <<"s", "7">>, TS("iso", 0)),
         Seat(<<"z", "z">>, <<"s", "8">>, TS("iso", 40)),
         Seat(<<"A", "B">>, <<"s", "9">>, TS("empty", 0)) >> }

\* The memberships the server answers with: against a directory of one
\* record, logins that are keys of the index and one that is not; else the
\* pool.
MembersOffered ==
    IF Len(scim_users) = 1
      THEN {Membership(TRUE, Obj(Str(k)), Absent, Absent) : k \in DOMAIN idx}
           \cup {Membership(TRUE, Absent, Absent, Str(<<"z", "z">>))}
      ELSE MembershipPool

\* main, up to "for i, t in enumerate(teams, start=1)"
JoinInit ==
    /\ LOGIN_SUFFIX = <<>>
    /\ ENTERPRISE_SLUG = <<"N", "g", "-", "E">>
    /\ scim_users \in Directories
    /\ idx = BuildScimIndex(scim_users, DeriveSuffixToken(LOGIN_SUFFIX, ENTERPRISE_SLUG))
    /\ position = Len(scim_users) + 1
    /\ ipc = "done"
    /\ all_seats \in SeatLists
    /\ seats_by_login = SeatsByLogin(all_seats)
    /\ team = NoTeam
    /\ rows = <<>>
    /\ jpc = "teams"
    /\ collected = <<>>
    /\ evalDays = <<>>

\* main: the head of "for i, t in enumerate(teams)" for one more team t; a
\* team without a slug is passed over, the memberships of the others are
\* fetched.
JoinNextTeam ==
    /\ jpc = "teams"
    /\ \E t \in TeamPool :
          IF TeamSlug(t) = <<>>
            THEN UNCHANGED <<team, jpc>>
            ELSE team' = t /\ jpc' = "members"
    /\ UNCHANGED <<all_seats, seats_by_login, rows, collected, evalDays, joinFrame>>

\* main: one pass of "for m in memberships" for one more membership m; now is
\* the clock is_active would read.
JoinMember ==
    /\ jpc = "members"
    /\ Len(collected) < MaxCollected
    /\ \E m \in MembersOffered, now \in ClockDays :
          LET login == ParseMembershipLogin(m)
          IN  /\ collected' = Append(collected, [team |-> team, membership |-> m])
              /\ IF login = <<>>
                   THEN UNCHANGED <<rows, evalDays>>
                   ELSE /\ rows' = Append(rows, Row(team, login, idx, seats_by_login, now))
                        /\ evalDays' = Append(evalDays,
                                              IF login \in DOMAIN seats_by_login THEN now ELSE 0)
    /\ UNCHANGED <<all_seats, seats_by_login, team, jpc, joinFrame>>

\* main: the team's memberships are exhausted
JoinTeamDone ==
    /\ jpc = "members"
    /\ jpc' = "teams"
    /\ team' = NoTeam
    /\ UNCHANGED <<all_seats, seats_by_login, rows, collected, evalDays, joinFrame>>

\* main: teams is exhausted; the rows are written to the CSV file
JoinWrite ==
    /\ jpc = "teams"
    /\ jpc' = "written"
    /\ UNCHANGED <<all_seats, seats_by_login, team, rows, collected, evalDays, joinFrame>>

InitJoin == HttpIdle /\ CandIdle /\ FlatIdle /\ JoinInit
NextJoin == JoinNextTeam \/ JoinMember \/ JoinTeamDone \/ JoinWrite
SpecJoin == InitJoin /\ [][NextJoin]_vars

\* x is a string that is not blank
StrAt(x) == x.t = "str" /\ Strip(x.v) # <<>>

\* the membership record holds a login: a non-blank string at user.login,
\* member.login or login
HasLogin(m) ==
    /\ m.isDict
    /\ \/ m.user.t = "dict" /\ StrAt(m.user.login)
       \/ m.member.t = "dict" /\ StrAt(m.member.login)
       \/ StrAt(m.login)

\* the collected (team, membership) pairs whose membership holds a login
WithLogin == SelectSeq(collected, LAMBDA c : HasLogin(c.membership))

\* C8 as claimed: the report has one row per collected (team, membership)
\* pair; no membership record is dropped.
C8_Original == Len(rows) = Len(collected)

\* C8 as amended: the report has one row, in order, per collected (team,
\* membership) pair whose membership holds a login, whether or not the login
\* matches a directory record or a seat; a membership without a login yields
\* no row, and memberships are collected only for teams that have a slug.
C8_OneRowPerLogin ==
    /\ Len(rows) = Len(WithLogin)
    /\ \A i \in 1..Len(rows) :
          /\ rows[i].login # <<>>
          /\ rows[i].team_slug = Strip(IF WithLogin[i].team.slug # <<>>
                                         THEN WithLogin[i].team.slug
                                         ELSE WithLogin[i].team.team_slug)
    /\ \A i \in 1..Len(collected) :
          collected[i].team.slug # <<>> \/ collected[i].team.team_slug # <<>>

\* two memberships collected, one without a login: one row, which matches
\* neither a directory record nor a seat
C8_Witness ==
    /\ jpc = "written"
    /\ Len(collected) = MaxCollected
    /\ Len(rows) = MaxCollected - 1
    /\ ~HasLogin(collected[1].membership)
    /\ rows[1].login = <<"z", "z">>
    /\ rows[1].copilot_assigned = "no"
    /\ rows[1].email = <<>>

\* the seats whose assignee login is the login up to letter case
SeatsIgnoringCase(login) ==
    {k \in 1..Len(all_seats) :
        /\ Strip(all_seats[k].login) # <<>>
        /\ Lower(Strip(all_seats[k].login)) = Lower(login)}

\* the directory keys that are the login up to letter case
KeysIgnoringCase(login) == {k \in DOMAIN idx : Lower(k) = Lower(login)}

\* C9 as claimed: a row whose login equals a seat's assignee login up to
\* letter case has copilot_assigned "yes" and that seat's fields, and a row
\* whose login equals a directory key up to letter case has that record's
\* identity fields.
C9_Original ==
    \A i \in 1..Len(rows) :
       /\ SeatsIgnoringCase(rows[i].login) # {} =>
             /\ rows[i].copilot_assigned = "yes"
             /\ \E k \in SeatsIgnoringCase(rows[i].login) :
                   /\ rows[i].copilot_status = all_seats[k].status
                   /\ rows[i].last_activity_at = all_seats[k].last_activity_at
       /\ KeysIgnoringCase(rows[i].login) # {} =>
             \E k \in KeysIgnoringCase(rows[i].login) :
                /\ rows[i].name = idx[k].name
                /\ rows[i].email = idx[k].email
                /\ rows[i].scim_userName = idx[k].scim_userName

\* the seats whose assignee login is the login
SeatsOf(login) == {k \in 1..Len(all_seats) : Strip(all_seats[k].login) = login}

\* C10: a row is "active" if and only if its login has a seat and that
\* seat's last-activity timestamp is a timestamp at most 30 days before the
\* day is_active read the clock; otherwise it is "inactive".  The seat of a
\* login is the last seat of the seat list with that assignee login.
C10_ActiveWithin30Days ==
    \A i \in 1..Len(rows) :
       LET seats == SeatsOf(rows[i].login)
           last_ == CHOOSE k \in seats : \A j \in seats : j <= k
       IN  /\ rows[i].active_status \in {"active", "inactive"}
           /\ rows[i].active_status = "active" <=>
                 /\ seats # {}
                 /\ all_seats[last_].last_activity_at.kind = "iso"
                 /\ evalDays[i] - all_seats[last_].last_activity_at.day <= 30

\* a seat 30 days old is "active", the same seat a day later is "inactive"
C10_Witness ==
    /\ Len(rows) = 2
    /\ rows[1].login = <<"A", "B">>
    /\ rows[1].last_activity_at = TS("iso", 1)
    /\ evalDays[1] = 31
    /\ rows[1].active_status = "active"
    /\ rows[2].login = <<"A", "B">>
    /\ evalDays[2] = 32
    /\ rows[2].active_status = "inactive"

\* C11: a row whose login has no seat has copilot_assigned "no", blank
\* copilot_status, plan_type, last_activity_at, seat_created_at and
\* seat_updated_at, and active_status "inactive"; a row whose login has no
\* entry in the identity index has blank name, email and scim_userName; no
\* row is "active" with copilot_assigned "no".
C11_UnmatchedFieldsBlank ==
    \A i \in 1..Len(rows) :
       /\ SeatsOf(rows[i].login) = {} =>
             /\ rows[i].copilot_assigned = "no"
             /\ rows[i].copilot_status = <<>>
             /\ rows[i].plan_type = <<>>
             /\ rows[i].last_activity_at = TS("empty", 0)
             /\ rows[i].seat_created_at = <<>>
             /\ rows[i].seat_updated_at = <<>>
             /\ rows[i].active_status = "inactive"
       /\ KeysIgnoringCase(rows[i].login) = {} =>
             /\ rows[i].name = <<>>
             /\ rows[i].email = <<>>
             /\ rows[i].scim_userName = <<>>
       /\ ~(rows[i].active_status = "active" /\ rows[i].copilot_assigned = "no")

\* a row without seat and without directory entry, after a row with both
C11_Witness ==
    /\ jpc = "written"
    /\ Len(rows) = 2
    /\ rows[1].copilot_assigned = "yes"
    /\ rows[1].plan_type = <<"b">>
    /\ rows[1].name = <<"N", "1">>
    /\ rows[2].login = <<"z", "z">>
    /\ SeatsOf(rows[2].login) = {}
    /\ KeysIgnoringCase(rows[2].login) = {}
    /\ rows[2].copilot_assigned = "no"

(***************************************************************************)
(* write_to_csv and __main__ of the metrics program                         *)
(***************************************************************************)
\* A JSON object is a record of the keys it has; d.get(k, default)
GetOr(d, k, default) == IF k \in DOMAIN d THEN d[k] ELSE default

\* {}
EmptyDict == <<>>

RECURSIVE Concat(_)
\* the rows of nested loops, in loop order
Concat(ss) == IF ss = <<>> THEN <<>> ELSE Head(ss) \o Concat(Tail(ss))

\* write_to_csv: the date-level values of an entry
Aggregates(entry) ==
    [date |-> GetOr(entry, "date", "N/A"),
     total_active_users |-> GetOr(entry, "total_active_users", 0),
     total_chat_engaged_users |->
         GetOr(GetOr(entry, "copilot_dotcom_chat", EmptyDict), "total_engaged_users", 0),
     total_pull_request_engaged_users |->
         GetOr(GetOr(entry, "copilot_dotcom_pull_requests", EmptyDict), "total_engaged_users", 0)]

\* write_to_csv: the row of one (editor, model, language)
CompletionRow(enterprise_id, team_name, entry, editor, model, language) ==
    [Enterprise |-> enterprise_id,
     Team |-> team_name,
     date |-> Aggregates(entry).date,
     editor |-> GetOr(editor, "name", "N/A"),
     model |-> GetOr(model, "name", "N/A"),
     language |-> GetOr(language, "name", "N/A"),
     total_engaged_users |-> GetOr(language, "total_engaged_users", 0),
     total_code_acceptances |-> GetOr(language, "total_code_acceptances", 0),
     total_code_suggestions |-> GetOr(language, "total_code_suggestions", 0),
     total_code_lines_accepted |-> GetOr(language, "total_code_lines_accepted", 0),
     total_code_lines_suggested |-> GetOr(language, "total_code_lines_suggested", 0),
     total_active_users |-> Aggregates(entry).total_active_users,
     total_chat_dotcom_engaged_users |-> Aggregates(entry).total_chat_engaged_users,
     total_pull_request_dotcom_engaged_users |->
         Aggregates(entry).total_pull_request_engaged_users,
     chat_editor_name |-> "",
     total_chats |-> 0,
     is_custom_model |-> FALSE,
     total_chat_copy_events |-> 0,
     total_chat_insertion_events |-> 0]

\* write_to_csv: the row of one (chat editor, model)
ChatRow(enterprise_id, team_name, entry, chat_editor, model) ==
    [Enterprise |-> enterprise_id,
     Team |-> team_name,
     date |-> Aggregates(entry).date,
     editor |-> "",
     model |-> "",
     language |-> "",
     total_engaged_users |-> 0,
     total_code_acceptances |-> 0,
     total_code_suggestions |-> 0,
     total_code_lines_accepted |-> 0,
     total_code_lines_suggested |-> 0,
     total_active_users |-> Aggregates(entry).total_active_users,
     total_chat_dotcom_engaged_users |-> Aggregates(entry).total_chat_engaged_users,
     total_pull_request_dotcom_engaged_users |->
         Aggregates(entry).total_pull_request_engaged_users,
     chat_editor_name |-> GetOr(chat_editor, "name", "N/A"),
     total_chats |-> GetOr(model, "total_chats", 0),
     is_custom_model |-> GetOr(model, "is_custom_model", FALSE),
     total_chat_copy_events |-> GetOr(model, "total_chat_copy_events", 0),
     total_chat_insertion_events |-> GetOr(model, "total_chat_insertion_events", 0)]

\* the first code-completion editor alone
FirstEditorOnly(entry) ==
    LET editors == GetOr(GetOr(entry, "copilot_ide_code_completions", EmptyDict),
                         "editors", <<>>)
    IN  IF editors = <<>> THEN <<>> ELSE <<editors[1]>>
\* the first language of a model alone
FirstLanguageOnly(model) ==
    LET languages == GetOr(model, "languages", <<>>)
    IN  IF languages = <<>> THEN <<>> ELSE <<languages[1]>>

\* entry.get("copilot_ide_code_completions", {}).get("editors", [])
CompletionEditors(entry) ==
    GetOr(GetOr(entry, "copilot_ide_code_completions", EmptyDict), "editors", <<>>)
\* entry.get("copilot_ide_chat", {}).get("editors", [])
ChatEditors(entry) ==
    GetOr(GetOr(entry, "copilot_ide_chat", EmptyDict), "editors", <<>>)
Models(editor) == GetOr(editor, "models", <<>>)
Languages(model) == GetOr(model, "languages", <<>>)

\* write_to_csv: the three nested loops over code completions; each element
\* is the row with the loop indices it was written at
CompletionRows(enterprise_id, team_name, entry) ==
    LET editors == CompletionEditors(entry)
    IN  Concat([e \in 1..Len(editors) |->
          Concat([m \in 1..Len(Models(editors[e])) |->
            [l \in 1..Len(Languages(Models(editors[e])[m])) |->
               [row |-> CompletionRow(enterprise_id, team_name, entry, editors[e],
                                      Models(editors[e])[m],
                                      Languages(Models(editors[e])[m])[l]),
                at |-> <<1, e, m, l>>]]])])

\* write_to_csv: the two nested loops over chat
ChatRows(enterprise_id, team_name, entry) ==
    LET editors == ChatEditors(entry)
    IN  Concat([e \in 1..Len(editors) |->
          [m \in 1..Len(Models(editors[e])) |->
             [row |-> ChatRow(enterprise_id, team_name, entry, editors[e],
                              Models(editors[e])[m]),
              at |-> <<2, e, m, 0>>]]])

\* the chat loops before the code-completion loops
ChatRowsFirst(enterprise_id, team_name, entry) ==
    ChatRows(enterprise_id, team_name, entry) \o CompletionRows(enterprise_id, team_name, entry)

\* write_to_csv: the body of "for entry in entries"
EntryRows(enterprise_id, team_name, entry) ==
    CompletionRows(enterprise_id, team_name, entry) \o ChatRows(enterprise_id, team_name, entry)

\* The inputs of the flattening.
MaxEntries == 2
Enterprise == "ent"

Language(name, n) ==
    [name |-> name, total_engaged_users |-> n, total_code_acceptances |-> n + 1,
     total_code_suggestions |-> n + 2, total_code_lines_accepted |-> n + 3,
     total_code_lines_suggested |-> n + 4]

EntryPool ==
    { \* two editors, each with one model of two languages; no chat
      [date |-> "d1", total_active_users |-> 5,
       copilot_dotcom_chat |-> [total_engaged_users |-> 2],
       copilot_dotcom_pull_requests |-> [total_engaged_users |-> 3],
       copilot_ide_code_completions |->
         [editors |->
            << [name |-> "vscode",
                models |-> <<[name |-> "default", is_custom_model |-> FALSE,
                              languages |-> <<Language("py", 1), Language("go", 2)>>]>>],
               [name |-> "vim",
                models |-> <<[name |-> "default", is_custom_model |-> TRUE,
                              languages |-> <<Language("py", 3), [name |-> "c"]>>]>>] >>]],
      \* no aggregates; an editor with two models, one without languages;
      \* two chat editors with two models and one model
      [date |-> "d2",
       copilot_ide_code_completions |->
         [editors |->
            << [name |-> "vscode",
                models |-> <<[name |-> "m1", languages |-> <<Language("py", 4)>>],
                             [name |-> "m2"]>>] >>],
       copilot_ide_chat |->
         [editors |->
            << [name |-> "vscode",
                models |-> <<[total_chats |-> 7, is_custom_model |-> TRUE,
                              total_chat_copy_events |-> 1,
                              total_chat_insertion_events |-> 2],
                             [total_chats |-> 8]>>],
               [models |-> <<[total_chat_copy_events |-> 3]>>] >>]],
      \* an entry with no key at all
      EmptyDict,
      \* chat alone, and an editor without models
      [date |-> "d4", total_active_users |-> 1,
       copilot_ide_code_completions |-> [editors |-> <<[name |-> "vim"]>>],
       copilot_ide_chat |->
         [editors |-> <<[name |-> "jetbrains", models |-> <<[total_chats |-> 9]>>]>>]] }

\* teams of the metrics program: with name and slug, without name, without
\* slug, with an empty slug
MTeamPool ==
    { [name |-> "T1", slug |-> "t1"],
      [slug |-> "t2"],
      [name |-> "X"],
      [name |-> "Y", slug |-> ""] }

\* __main__: the file is open and the header row written
FlatInit ==
    /\ mteam = <<>>
    /\ csv = <<>>
    /\ fpc = "teams"
    /\ written = <<>>
    /\ rowSrc = <<>>

\* __main__: the head of "for team in teams" for one more team; a team
\* without a slug is passed over, the metrics of the others are fetched.
FlatNextTeam ==
    /\ fpc = "teams"
    /\ \E t \in MTeamPool :
          IF GetOr(t, "slug", "") = ""
            THEN UNCHANGED <<mteam, fpc>>
            ELSE mteam' = t /\ fpc' = "entries"
    /\ UNCHANGED <<csv, written, rowSrc, flatFrame>>

\* write_to_csv: one pass of "for entry in entries" for one more entry
FlatEntry ==
    /\ fpc = "entries"
    /\ Len(written) < MaxEntries
    /\ \E entry \in EntryPool :
          LET new == EntryRows(Enterprise, GetOr(mteam, "name", "N/A"), entry)
          IN  /\ written' = Append(written, [team |-> mteam, entry |-> entry])
              /\ csv' = csv \o [i \in 1..Len(new) |-> new[i].row]
              /\ rowSrc' = rowSrc \o [i \in 1..Len(new) |-> <<Len(written) + 1>> \o new[i].at]
    /\ UNCHANGED <<mteam, fpc, flatFrame>>

\* write_to_csv returns: the team's entries are exhausted
FlatTeamDone ==
    /\ fpc = "entries"
    /\ fpc' = "teams"
    /\ mteam' = <<>>
    /\ UNCHANGED <<csv, written, rowSrc, flatFrame>>

\* __main__: teams is exhausted and the file is closed
FlatClose ==
    /\ fpc = "teams"
    /\ fpc' = "closed"
    /\ UNCHANGED <<mteam, csv, written, rowSrc, flatFrame>>

InitFlat == HttpIdle /\ EnvIdle /\ CandIdle /\ IndexIdle /\ JoinIdle /\ FlatInit
NextFlat == FlatNextTeam \/ FlatEntry \/ FlatTeamDone \/ FlatClose
SpecFlat == InitFlat /\ [][NextFlat]_vars

\* the (editor, model, language) positions under an entry's code completions
Triples(entry) ==
    LET editors == IF "copilot_ide_code_completions" \in DOMAIN entry
                      /\ "editors" \in DOMAIN entry.copilot_ide_code_completions
                     THEN entry.copilot_ide_code_completions.editors ELSE <<>>
    IN  {t \in (1..Len(editors)) \X (1..2) \X (1..2) :
            /\ "models" \in DOMAIN editors[t[1]]
            /\ t[2] <= Len(editors[t[1]].models)
            /\ "languages" \in DOMAIN editors[t[1]].models[t[2]]
            /\ t[3] <= Len(editors[t[1]].models[t[2]].languages)}

\* the (chat editor, model) positions under an entry's chat
Pairs(entry) ==
    LET editors == IF "copilot_ide_chat" \in DOMAIN entry
                      /\ "editors" \in DOMAIN entry.copilot_ide_chat
                     THEN entry.copilot_ide_chat.editors ELSE <<>>
    IN  {t \in (1..Len(editors)) \X (1..2) :
            /\ "models" \in DOMAIN editors[t[1]]
            /\ t[2] <= Len(editors[t[1]].models)}

\* the rows written for the k-th entry passed to write_to_csv
RowsOf(k) == {i \in 1..Len(csv) : rowSrc[i][1] = k}

\* row i carries the date and the three date-level aggregates of entry
CarriesAggregates(i, entry) ==
    /\ csv[i].date = IF "date" \in DOMAIN entry THEN entry.date ELSE "N/A"
    /\ csv[i].total_active_users =
          IF "total_active_users" \in DOMAIN entry THEN entry.total_active_users ELSE 0
    /\ csv[i].total_chat_dotcom_engaged_users =
          IF "copilot_dotcom_chat" \in DOMAIN entry
            THEN entry.copilot_dotcom_chat.total_engaged_users ELSE 0
    /\ csv[i].total_pull_request_dotcom_engaged_users =
          IF "copilot_dotcom_pull_requests" \in DOMAIN entry
            THEN entry.copilot_dotcom_pull_requests.total_engaged_users ELSE 0

\* C12: per entry, write_to_csv emits exactly one row per (editor, model,
\* language) triple of the code completions and one per (chat editor, model)
\* pair of the chat, so as many rows as there are triples and pairs; every
\* row carries the entry's date and date-level aggregates; a completion row
\* has the chat columns blank or zero, a chat row the completion columns.
C12_OneRowPerTriple ==
    \A k \in 1..Len(written) :
       LET entry == written[k].entry
       IN  /\ Cardinality(RowsOf(k)) = Cardinality(Triples(entry)) + Cardinality(Pairs(entry))
           /\ \A t \in Triples(entry) : \E i \in RowsOf(k) : rowSrc[i] = <<k, 1>> \o t
           /\ \A t \in Pairs(entry) : \E i \in RowsOf(k) : rowSrc[i] = <<k, 2>> \o t \o <<0>>
           /\ \A i \in RowsOf(k) :
                 /\ CarriesAggregates(i, entry)
                 /\ rowSrc[i][2] = 1 =>
                       /\ csv[i].chat_editor_name = ""
                       /\ csv[i].total_chats = 0
                       /\ csv[i].is_custom_model = FALSE
                       /\ csv[i].total_chat_copy_events = 0
                       /\ csv[i].total_chat_insertion_events = 0
                       /\ csv[i].editor # ""
                 /\ rowSrc[i][2] = 2 =>
                       /\ csv[i].editor = ""
                       /\ csv[i].model = ""
                       /\ csv[i].language = ""
                       /\ csv[i].total_engaged_users = 0
                       /\ csv[i].total_code_acceptances = 0
                       /\ csv[i].total_code_suggestions = 0
                       /\ csv[i].total_code_lines_accepted = 0
                       /\ csv[i].total_code_lines_suggested = 0
                       /\ csv[i].chat_editor_name # ""

\* an entry with one triple and three pairs: four rows, the first a
\* completion row, the others chat rows
C12_Witness ==
    /\ fpc = "closed"
    /\ Len(written) = 1
    /\ Cardinality(Triples(written[1].entry)) = 1
    /\ Cardinality(Pairs(written[1].entry)) = 3
    /\ Len(csv) = 4
    /\ csv[1].language = "py"
    /\ csv[4].chat_editor_name = "N/A"
    /\ csv[4].total_chat_copy_events = 3

\* the entry has two code-completion editors, each with one model of two
\* languages, and no chat editor
TwoEditorsTwoLanguages(entry) ==
    /\ "copilot_ide_code_completions" \in DOMAIN entry
    /\ "copilot_ide_chat" \notin DOMAIN entry
    /\ Len(entry.copilot_ide_code_completions.editors) = 2
    /\ \A e \in 1..2 :
          /\ Len(entry.copilot_ide_code_completions.editors[e].models) = 1
          /\ Len(entry.copilot_ide_code_completions.editors[e].models[1].languages) = 2

\* C13 as claimed: such an entry flattens into exactly 2 rows, each with the
\* entry's date-level aggregates.
C13_Original ==
    \A k \in 1..Len(written) :
       TwoEditorsTwoLanguages(written[k].entry) =>
          /\ Cardinality(RowsOf(k)) = 2
          /\ \A i \in RowsOf(k) : CarriesAggregates(i, written[k].entry)

\* C13 as amended: such an entry flattens into exactly 4 rows, one per
\* (editor, model, language) triple, each with the entry's date-level
\* aggregates.
C13_FourRows ==
    \A k \in 1..Len(written) :
       TwoEditorsTwoLanguages(written[k].entry) =>
          /\ Cardinality(RowsOf(k)) = 4
          /\ \A i \in RowsOf(k) : CarriesAggregates(i, written[k].entry)

\* the entry of two editors written for team t1: four rows with its
\* aggregates 5, 2 and 3
C13_Witness ==
    /\ Len(written) = 1
    /\ TwoEditorsTwoLanguages(written[1].entry)
    /\ Len(csv) = 4
    /\ \A i \in 1..4 :
          /\ csv[i].Team = "T1"
          /\ csv[i].total_active_users = 5
          /\ csv[i].total_chat_dotcom_engaged_users = 2
          /\ csv[i].total_pull_request_dotcom_engaged_users = 3
    /\ csv[3].editor = "vim"
    /\ csv[4].language = "c"

(***************************************************************************)
(* The join against a directory of one record                              *)
(***************************************************************************)
NewgenEMU == <<"N", "e", "w", "g", "e", "n", "-", "E", "M", "U">>
SChanderEmail ==
    <<"s", ".", "c", "h", "a", "n", "d", "e", "r", "@", "c", "o", ".", "c", "o", "m">>

\* the directories of one record: the e-mail "s.chander@co.com" under the
\* name "SC"; e-mail "ab@y" with userName "A.B@x"; userName "AB@z" alone; an
\* element that is not an object
SingleDirectories ==
    { << User(TRUE, <<"S", "C">>, TRUE, <<>>, <<>>, <<>>,
              <<EmailEntry(TRUE, TRUE, SChanderEmail)>>, <<>>) >>,
      << User(TRUE, <<>>, TRUE, <<"N", "2">>, <<>>, <<>>,
              <<EmailEntry(TRUE, FALSE, <<"a", "b", "@", "y">>)>>, <<"A", ".", "B", "@", "x">>) >>,
      << User(TRUE, <<" ">>, TRUE, <<>>, <<"G">>, <<"F">>, <<>>, <<"A", "B", "@", "z">>) >>,
      << User(FALSE, <<>>, TRUE, <<>>, <<>>, <<>>, <<>>, <<>>) >> }

\* main, up to the for loop over teams, with tenant slug "Newgen-EMU", no
\* LOGIN_SUFFIX, a directory of one record and no seat
ResolveInit ==
    /\ LOGIN_SUFFIX = <<>>
    /\ ENTERPRISE_SLUG = NewgenEMU
    /\ scim_users \in SingleDirectories
    /\ idx = BuildScimIndex(scim_users, DeriveSuffixToken(LOGIN_SUFFIX, ENTERPRISE_SLUG))
    /\ position = Len(scim_users) + 1
    /\ ipc = "done"
    /\ all_seats = <<>>
    /\ seats_by_login = SeatsByLogin(all_seats)
    /\ team = NoTeam
    /\ rows = <<>>
    /\ jpc = "teams"
    /\ collected = <<>>
    /\ evalDays = <<>>

InitResolve == HttpIdle /\ CandIdle /\ FlatIdle /\ ResolveInit
SpecResolve == InitResolve /\ [][NextJoin]_vars

\* the candidate keys of the only directory record: the candidates of its
\* e-mail and, when the userName holds "@", of its userName
CandidateKeys ==
    IF Len(scim_users) = 1 /\ scim_users[1].isDict
      THEN GenerateLoginCandidates(PickScimEmail(scim_users[1]),
                                   DeriveSuffixToken(LOGIN_SUFFIX, ENTERPRISE_SLUG))
           \cup GenerateLoginCandidates(Strip(scim_users[1].userName),
                                        DeriveSuffixToken(LOGIN_SUFFIX, ENTERPRISE_SLUG))
      ELSE {}

\* C14: the suffix token of "Newgen-EMU" without override is "newgen"; the
\* candidates of "s.chander@co.com" hold "schander_newgen" and
\* "s-chander_newgen"; against a directory of one record, a row whose login
\* is one of the record's candidate keys has the record's name, email and
\* userName.
C14_CandidateResolves ==
    /\ DeriveSuffixToken(<<>>, NewgenEMU) = <<"n", "e", "w", "g", "e", "n">>
    /\ {<<"s", "c", "h", "a", "n", "d", "e", "r", "_", "n", "e", "w", "g", "e", "n">>,
        <<"s", "-", "c", "h", "a", "n", "d", "e", "r", "_", "n", "e", "w", "g", "e", "n">>}
          \subseteq GenerateLoginCandidates(SChanderEmail, DeriveSuffixToken(<<>>, NewgenEMU))
    /\ \A i \in 1..Len(rows) :
          rows[i].login \in CandidateKeys =>
             /\ rows[i].name = PickScimName(scim_users[1])
             /\ rows[i].email = PickScimEmail(scim_users[1])
             /\ rows[i].scim_userName = Strip(scim_users[1].userName)

\* the membership "schander_newgen" against the directory of
\* "s.chander@co.com": the row has the record's name and e-mail
C14_Witness ==
    /\ jpc = "written"
    /\ Len(rows) = 2
    /\ rows[1].login = <<"z", "z">>
    /\ rows[1].email = <<>>
    /\ rows[2].login =
          <<"s", "c", "h", "a", "n", "d", "e", "r", "_", "n", "e", "w", "g", "e", "n">>
    /\ rows[2].login \in CandidateKeys
    /\ rows[2].name = <<"S", "C">>
    /\ rows[2].email = SChanderEmail

\* C15 as claimed: in both programs, when the token or the tenant identifier
\* is absent, the run stops with a fatal error at start-up and no HTTP
\* request is ever issued.
C15_Original ==
    (~cfg.token \/ ~cfg.tenant) =>
        /\ pc \in {"start", "fatal"}
        /\ calls = 0
        /\ nreq = 0

\* a link-header collector of the metrics program handles the response to a
\* page request
LinkStep == prog = "metrics" /\ pc = "m_get" /\ calls' = calls + 1

\* the collector goes on to request the next page
RequestsNextPage == pc' = "m_get" /\ page' = page + 1 /\ phase' = phase

\* C16 as claimed: the link-header collectors request page p+1 if and only if
\* the response to page p exposes a "next" link, whatever the number of items
\* of page p, zero included.
C16_Original == [][LinkStep => (RequestsNextPage <=> resp'.next)]_vars

\* C16 as amended: the link-header collectors request page p+1 if and only if
\* the response to page p has status 200, a non-empty body and a "next" link;
\* a page of fewer than per_page items, but at least one, that carries a
\* "next" link is followed by the request for the next page, while a page of
\* zero items or a response of another status ends the collection with what
\* was collected so far.
C16_NextLinkAndNonEmpty ==
    [][LinkStep =>
         /\ RequestsNextPage <=>
               (resp'.status = 200 /\ Len(out') > Len(out) /\ resp'.next)
         /\ (resp'.status # 200 \/ Len(out') = Len(out)) =>
               (pc' = "returned" /\ out' = out)]_vars

\* page 1 held one item, fewer than per_page, and a "next" link: page 2 is
\* requested next
C16_Witness ==
    /\ phase = "m_metrics"
    /\ pc = "m_get"
    /\ page = 2
    /\ calls = 1
    /\ Len(out) = 1
    /\ Len(out) < PerPage
    /\ resp.status = 200
    /\ resp.next

(***************************************************************************)
(* The team/seat program from the point where fetch_all_scim_users has     *)
(* returned, with every step it can take eventually taken: main is         *)
(* sequential code, so a run that can go on does.                          *)
(***************************************************************************)
\* main: fetch_all_scim_users has returned an empty directory after one
\* request answered 200
DirectoryCollected ==
    /\ prog = "billing"
    /\ cfg = [token |-> TRUE, tenant |-> TRUE]
    /\ phase = "scim"
    /\ pc = "returned"
    /\ attempt = 1
    /\ last = Resp(200, <<>>, "body_a", FALSE, <<>>, <<>>)
    /\ resp = last
    /\ page = 1
    /\ start_index = 1
    /\ out = <<>>
    /\ err = NoErr
    /\ todo = 0
    /\ output = "none"
    /\ rlSleep = 0
    /\ clock = 0
    /\ nreq = 1
    /\ firstOk = 1
    /\ nsleeps = 0
    /\ wait = 0
    /\ calls = 1
    /\ first = [seen |-> TRUE, noIpp |-> TRUE, noRes |-> TRUE, total |-> 0]
    /\ sawAccess = FALSE
    /\ sawBadShape = FALSE

InitPaged == DirectoryCollected /\ PureIdle
NextPaged ==
    \/ GhGetAttempt
    \/ SeatsHandle
    \/ PagedHandle
    \/ BillingMain
    \/ BillingTeamLoop
SpecPaged == InitPaged /\ [][NextPaged]_vars /\ WF_vars(NextPaged)

\* a page-number collector is at work: fetch_rest_list_paged for teams or
\* memberships, or the seat collector
InPageNumber ==
    /\ phase \in {"teams", "memberships", "seats"}
    /\ pc \in {"gh_get", "handle", "returned", "raised"}

\* the i-th item of the concatenation of full pages 1, 2, ... : item
\* ((i - 1) mod per_page) + 1 of page ((i - 1) div per_page) + 1
ConcatItem(i) == <<((i - 1) \div PerPage) + 1, ((i - 1) % PerPage) + 1>>

\* while a page-number collector is at work, the pages requested are
\* 1..page, one request each, every page before the current one was full
\* and the list holds their items in order; when it returns, the list also
\* holds the items of the last page, which is short
PageNumberOrder ==
    InPageNumber =>
        /\ calls = page
        /\ \A i \in 1..Len(out) : out[i] = ConcatItem(i)
        /\ pc \in {"gh_get", "handle", "raised"} => Len(out) = (page - 1) * PerPage
        /\ pc = "returned" =>
              /\ Len(out) >= (page - 1) * PerPage
              /\ Len(out) < page * PerPage

C18_Original ==
    (prog = "billing" /\ pc = "handle") =>
        /\ nreq \in 1..MaxAttempts
        /\ nsleeps = nreq - 1
        /\ (nsleeps > 0 => wait \in {ToInt(ra) : ra \in {h \in RetryAfterHeaders : IsDigit(h)}}
                                  \cup {Min(BackoffCap, BackoffStep * n) : n \in 1..MaxAttempts})

\* ---------------------------------------------------------------------------
\* The two report writers side by side: a run is either the team/seat join of
\* the billing program or the flattening of the metrics program.
InitReports == InitJoin \/ InitFlat
NextReports == NextJoin \/ NextFlat
SpecReports == InitReports /\ [][NextReports]_vars

\* a source position (entry, family, editor, model, language) comes before
\* another in nesting order
Before(a, b) ==
    \E k \in 1..5 : a[k] < b[k] /\ \A h \in 1..(k - 1) : a[h] = b[h]

\* the team/seat report: the k-th row is the row of the k-th collected (team,
\* membership) pair that holds a login
SeatRowsInOrder ==
    /\ Len(rows) = Len(WithLogin)
    /\ Len(evalDays) = Len(rows)
    /\ \A k \in 1..Len(rows) :
          rows[k] = Row(WithLogin[k].team, ParseMembershipLogin(WithLogin[k].membership),
                        idx, seats_by_login, evalDays[k])

\* the metrics report: the rows' source positions strictly increase, and each
\* row is of the kind, the team and the entry its position names
MetricRowsInOrder ==
    /\ Len(csv) = Len(rowSrc)
    /\ \A i \in 1..Len(csv) :
          /\ rowSrc[i][1] \in 1..Len(written)
          /\ csv[i].Team = GetOr(written[rowSrc[i][1]].team, "name", "N/A")
          /\ CarriesAggregates(i, written[rowSrc[i][1]].entry)
          /\ (rowSrc[i][2] = 1) <=> (csv[i].editor # "")
          /\ (rowSrc[i][2] = 2) <=> (csv[i].chat_editor_name # "")
    /\ \A i, j \in 1..Len(csv) : i < j => Before(rowSrc[i], rowSrc[j])

\* C19: output rows follow source order in both pipelines.  Team/seat report:
\* rows come in the order the (team, membership) pairs were collected, team
\* by team and membership by membership.  Metrics report: rows come entry by
\* entry in the order the entries were passed; within one entry all
\* code-completion rows, in editor, model, language nesting order, precede
\* all chat rows, and no row of a later entry precedes one of an earlier entry.
C19_RowsInSourceOrder == SeatRowsInOrder /\ MetricRowsInOrder

\* two entries written: the first yields one completion row and then three
\* chat rows, the second a chat row after them
C19_Witness ==
    /\ Len(written) = 2
    /\ Len(csv) = 5
    /\ rowSrc = << <<1, 1, 1, 1, 1>>, <<1, 2, 1, 1, 0>>, <<1, 2, 1, 2, 0>>,
                   <<1, 2, 2, 1, 0>>, <<2, 2, 1, 1, 0>> >>
    /\ csv[1].language = "py"
    /\ csv[2].total_chats = 7
    /\ csv[4].total_chat_copy_events = 3
    /\ csv[5].chat_editor_name = "jetbrains"

\* ---------------------------------------------------------------------------
\* the last response of the metrics program reports a remaining quota of zero
ZeroQuota == resp.remaining # <<>> /\ ToInt(resp.remaining) = 0

\* the reset time the last response reports, 0 when it reports none
ReportedReset == IF resp.reset = <<>> THEN 0 ELSE ToInt(resp.reset)

\* the earliest time at which the metrics program can issue its next request:
\* the clock reading of handle_rate_limit plus the seconds it slept
EarliestNextRequest == clock + rlSleep

\* C20: in the metrics program, whenever the response just handled reports a
\* remaining quota of zero, handle_rate_limit has slept max(reset - now, 1) + 2
\* seconds before any further request is issued, so no request is issued
\* between that response and the reported reset time; when the remaining
\* quota is non-zero or the header is absent, it has not slept.
C20_RateLimitSleep ==
    (prog = "metrics" /\ resp # NoResp) =>
        /\ clock \in Times
        /\ ZeroQuota =>
              /\ rlSleep = Max(ReportedReset - clock, 1) + 2
              /\ rlSleep >= 3
              /\ EarliestNextRequest > ReportedReset
        /\ ~ZeroQuota => rlSleep = 0

\* a first page of teams answered with a zero quota that resets at 9, read at
\* time 5: six seconds slept, and the second page is about to be requested
C20_Witness ==
    /\ prog = "metrics"
    /\ phase = "m_teams"
    /\ pc = "m_get"
    /\ page = 2
    /\ resp.status = 200
    /\ resp.remaining = <<"0">>
    /\ resp.reset = <<"9">>
    /\ clock = 5
    /\ rlSleep = 6

====
